---- MODULE Spec2Model ----
(***************************************************************************)
(* gensx: the execution-tree checkpoint manager (CheckpointManager), its   *)
(* debounced publisher, the component wrapper that drives it, the context  *)
(* scopes (createContext, useContext, withContext) and the resolver        *)
(* (resolveDeep, execute).                                                 *)
(*                                                                         *)
(* JavaScript runs every callback to completion, so one action is one task *)
(* of the event loop: the code between two suspension points.              *)
(***************************************************************************)
EXTENDS Integers, Sequences, FiniteSets, TLC

(* ------------------------------ bounds -------------------------------- *)
\* node identities handed to addNode
MaxNodes == 3
\* calls made on the manager in one run
MaxOps == 3

\* withContext scopes entered in one run
MaxScopes == 2
\* createContext calls made in one run
MaxKeys == 2

\* elements of an array handed to resolveDeep
MaxItems == 3

NodeIds == 1..MaxNodes
\* "no id": parentId undefined, root undefined
NoId == 0
\* timestamps: undefined, or what Date.now() returned (its value is never compared)
NoTime == "undefined"
Timestamp == "Date.now()"
Undefined == "undefined"
Values == {"v1"}
MetaKeys == {"error", "k"}
MetaVals == {"m1", "m2"}
\* what a fetch can come back with: 2xx, a non-success status, a transport throw
Outcomes == {"ok", "status", "throw"}

\* what a user function throws: Error objects, and a value that is no Error
Errors == {"e1"}
NonErrors == {"str"}
Message(e) == IF e = "e1" THEN "m1" ELSE "m2"

VARIABLES
  cm,      \* the CheckpointManager object and the number of its fetches in flight
  comp,    \* the component invocations (GsxComponent calls), one per node id
  ctx,     \* the context manager: contextStorage, globalContext, the run in progress
  hist,    \* history: what the callers asked for and what the fetch mock recorded
  heap,    \* context.ts: contextCounter, the contexts created, the ExecutionContext objects
  mgr,     \* context.ts: contextStorage, globalContext, the run in progress
  scope,   \* the withContext calls, one per scope id
  obs,     \* history: whether two sibling scopes were ever in flight together
  task,    \* the calls of resolveDeep and execute, in the order they were made
  trace,   \* history: the components invoked, the continuations called
  sc,      \* one execute of a stream component: invocations, iterators, consumer
  call,    \* the calls made on a CheckpointManager: how many, the last one
  retry    \* one run of RetryTransform or StructuredOutput: its loop, its attempts

wfVars == <<cm, comp, ctx, hist>>
scopeVars == <<heap, mgr, scope, obs>>
resolveVars == <<task, trace>>
streamVars == <<sc>>
callVars == <<call>>
retryVars == <<retry>>
vars == <<wfVars, scopeVars, resolveVars, streamVars, callVars, retryVars>>

(* ------------------------- CheckpointManager -------------------------- *)
NoMetadata == [k \in MetaKeys |-> Undefined]

\* a node as addNode builds it (id, parentId?, endTime?, output?, children, metadata?)
NewNode(id) ==
  [id |-> id, parentId |-> NoId, startTime |-> Timestamp, endTime |-> NoTime,
   output |-> Undefined, children |-> <<>>, metadata |-> NoMetadata]

\* JSON.stringify(node): the node with its children expanded in place
RECURSIVE Stringify(_, _)
Stringify(nodes, id) ==
  [id |-> id, parentId |-> nodes[id].parentId, startTime |-> nodes[id].startTime,
   endTime |-> nodes[id].endTime, output |-> nodes[id].output,
   metadata |-> nodes[id].metadata,
   children |-> [i \in 1..Len(nodes[id].children) |->
                   Stringify(nodes, nodes[id].children[i])]]

\* what a writeCheckpoint promise settles to, given what fetch came back with
WriteCheckpointNoCatch(outcome) ==
  IF outcome = "throw" THEN "rejected" ELSE "fulfilled"

WriteCheckpointSettles(outcome) ==
  CASE outcome = "ok" -> "fulfilled"
    [] outcome = "status" -> "fulfilled"   \* logged
    [] outcome = "throw" -> "fulfilled"    \* caught and logged

\* writeCheckpoint up to its await: POST the current tree. The body is handed to
\* fetch (outbox); it is of no use to the manager afterwards.
WriteCheckpoint(m) ==
  IF m.root = NoId THEN m
  ELSE [m EXCEPT !.fetches = @ + 1,
                 !.outbox = Append(@, Stringify(m.nodes, m.root))]

UpdateCheckpointNoGate(m) ==
  IF m.root = NoId THEN m
  ELSE IF m.activeCheckpoint THEN [m EXCEPT !.pendingUpdate = TRUE]
  ELSE [WriteCheckpoint(m) EXCEPT !.activeCheckpoint = TRUE]

UpdateCheckpointNoQueue(m) ==
  IF ~m.checkpointsEnabled \/ m.root = NoId THEN m
  ELSE [WriteCheckpoint(m) EXCEPT !.activeCheckpoint = TRUE]

UpdateCheckpointNoPending(m) ==
  IF ~m.checkpointsEnabled \/ m.root = NoId THEN m
  ELSE IF m.activeCheckpoint THEN m
  ELSE [WriteCheckpoint(m) EXCEPT !.activeCheckpoint = TRUE]

UpdateCheckpoint(m) ==
  IF ~m.checkpointsEnabled \/ m.root = NoId THEN m
  ELSE IF m.activeCheckpoint THEN [m EXCEPT !.pendingUpdate = TRUE]
  ELSE [WriteCheckpoint(m) EXCEPT !.activeCheckpoint = TRUE]

\* the .finally callback of a write
FinallyNoFollowUp(m) == [m EXCEPT !.activeCheckpoint = FALSE]

FinallyKeepPending(m) ==
  LET m1 == [m EXCEPT !.activeCheckpoint = FALSE]
  IN IF m1.pendingUpdate THEN UpdateCheckpoint(m1) ELSE m1

Finally(m) ==
  LET m1 == [m EXCEPT !.activeCheckpoint = FALSE]
  IN IF m1.pendingUpdate
       THEN UpdateCheckpoint([m1 EXCEPT !.pendingUpdate = FALSE])
       ELSE m1

\* addNode after its await: register, attach to a known parent or become root
AddNodeReplacesRoot(m, id, parentId) ==
  LET node == NewNode(id)
      m1 == [m EXCEPT !.nodes = (id :> node) @@ @]
      m2 == IF parentId # NoId
              THEN IF parentId \in DOMAIN m1.nodes
                     THEN [m1 EXCEPT !.nodes[id].parentId = parentId,
                                     !.nodes[parentId].children = Append(@, id)]
                     ELSE m1
              ELSE [m1 EXCEPT !.root = id]
  IN UpdateCheckpoint(m2)

AddNodeNoParentRef(m, id, parentId) ==
  LET node == NewNode(id)
      m1 == [m EXCEPT !.nodes = (id :> node) @@ @]
      m2 == IF parentId # NoId
              THEN IF parentId \in DOMAIN m1.nodes
                     THEN [m1 EXCEPT !.nodes[parentId].children = Append(@, id)]
                     ELSE m1
              ELSE IF m1.root = NoId THEN [m1 EXCEPT !.root = id] ELSE m1
  IN UpdateCheckpoint(m2)

AddNodeAttachesTwice(m, id, parentId) ==
  LET node == NewNode(id)
      m1 == [m EXCEPT !.nodes = (id :> node) @@ @]
      m2 == IF parentId # NoId
              THEN IF parentId \in DOMAIN m1.nodes
                     THEN [m1 EXCEPT !.nodes[id].parentId = parentId,
                                     !.nodes[parentId].children = Append(Append(@, id), id)]
                     ELSE m1
              ELSE IF m1.root = NoId THEN [m1 EXCEPT !.root = id] ELSE m1
  IN UpdateCheckpoint(m2)

AddNode(m, id, parentId) ==
  LET node == NewNode(id)
      m1 == [m EXCEPT !.nodes = (id :> node) @@ @]
      m2 == IF parentId # NoId
              THEN IF parentId \in DOMAIN m1.nodes
                     THEN [m1 EXCEPT !.nodes[id].parentId = parentId,
                                     !.nodes[parentId].children = Append(@, id)]
                     ELSE m1
              ELSE IF m1.root = NoId THEN [m1 EXCEPT !.root = id] ELSE m1
  IN UpdateCheckpoint(m2)

CompleteNodeUnknownUpdates(m, id, output) ==
  IF id \in DOMAIN m.nodes
    THEN UpdateCheckpoint([m EXCEPT !.nodes[id].endTime = Timestamp,
                                    !.nodes[id].output = output])
    ELSE UpdateCheckpoint(m)

CompleteNodeNoUpdate(m, id, output) ==
  IF id \in DOMAIN m.nodes
    THEN [m EXCEPT !.nodes[id].endTime = Timestamp, !.nodes[id].output = output]
    ELSE m

CompleteNode(m, id, output) ==
  IF id \in DOMAIN m.nodes
    THEN UpdateCheckpoint([m EXCEPT !.nodes[id].endTime = Timestamp,
                                    !.nodes[id].output = output])
    ELSE m   \* warns

AddMetadataReplaces(m, id, metadata) ==
  IF id \in DOMAIN m.nodes
    THEN UpdateCheckpoint([m EXCEPT !.nodes[id].metadata = metadata])
    ELSE m

AddMetadata(m, id, metadata) ==
  IF id \in DOMAIN m.nodes
    THEN UpdateCheckpoint(
           [m EXCEPT !.nodes[id].metadata =
              [k \in MetaKeys |-> IF metadata[k] # Undefined THEN metadata[k] ELSE @[k]]])
    ELSE m

Write(m) == UpdateCheckpoint(m)

\* the constructor, with GENSX_CHECKPOINTS read once
NewManager(enabled) ==
  [nodes |-> <<>>, root |-> NoId, checkpointsEnabled |-> enabled,
   activeCheckpoint |-> FALSE, pendingUpdate |-> FALSE,
   fetches |-> 0, outbox |-> <<>>, unhandledRejection |-> FALSE]

\* the bodies handed to fetch have left the process
Sent(m) == [m EXCEPT !.outbox = <<>>]

NoHistory ==
  [ops |-> 0, burst |-> 0, lastBurst |-> 0, settled |-> 0, failed |-> FALSE,
   requested |-> <<>>, outputs |-> <<>>, fetchCalls |-> 0, lastBody |-> <<>>]

\* the fetch mock records the calls made by one task: their number, the last body
Recorded(h, m) ==
  [h EXCEPT !.fetchCalls = @ + Len(m.outbox),
            !.lastBody = IF m.outbox = <<>> THEN @ ELSE <<m.outbox[Len(m.outbox)]>>]

(* --------------------------- execution context ------------------------ *)
\* an ExecutionContext frame: the value bound to each context symbol
rootContext == [currentNode |-> NoId]

\* ExecutionContext.withContext: a new frame, the receiver's bindings overridden
WithContext(frame, newContext) ==
  [k \in DOMAIN frame \cup DOMAIN newContext |->
     IF k \in DOMAIN newContext THEN newContext[k] ELSE frame[k]]

GetCurrentNodeId(frame) == frame.currentNode

WithNode(frame, nodeId) == WithContext(frame, [currentNode |-> nodeId])

\* contextStorage is set when node:async_hooks could be imported
NewContextManager(asyncHooks) ==
  [contextStorage |-> asyncHooks, globalContext |-> rootContext,
   prevContext |-> rootContext, running |-> NoId]

\* contextManager.run up to the return of fn(): install the frame for the dispatch
Run(c, frame, i) ==
  IF c.contextStorage
    THEN [c EXCEPT !.running = i]
    ELSE [c EXCEPT !.prevContext = c.globalContext, !.globalContext = frame,
                   !.running = i]

\* contextManager.run, its finally: the synchronous dispatch is over
RunFinally(c) ==
  IF c.contextStorage
    THEN [c EXCEPT !.running = NoId]
    ELSE [c EXCEPT !.globalContext = c.prevContext, !.running = NoId]

\* contextManager.getCurrentContext, called by code of invocation `caller`
\* (NoId: code outside every component scope)
GetCurrentContext(caller) ==
  IF ctx.contextStorage
    THEN IF caller = NoId THEN rootContext ELSE comp[caller].scope
    ELSE ctx.globalContext

(* ------------------- values handed to resolveDeep --------------------- *)
None == "none"
Prim(v) == [kind |-> "prim", v |-> v]
Null == [kind |-> "null"]
Undef == [kind |-> "undefined"]
\* a promise, and what it fulfils with
Promise(of) == [kind |-> "promise", of |-> of]
Array(items) == [kind |-> "array", items |-> items]
\* a streamable: { stream, value }, value a promise of the accumulated string
Streamable(value) == [kind |-> "streamable", value |-> value]
\* a JSX element: { type, props }, props.stream and props.children (a function)
Element(type, stream, children) ==
  [kind |-> "element", type |-> type, stream |-> stream, children |-> children]

\* the user functions wrapped by Component and StreamComponent: what fn(props)
\* returns
ComponentBody(type) ==
  CASE type = "Leaf" -> Prim("x")
    [] type = "Outer" -> Element("Leaf", FALSE, None)
    [] type = "Deep" -> Promise(Element("Outer", FALSE, None))
    [] type = "Stream" -> Streamable(Prim("tokens"))
IsStreamComponent(type) == type = "Stream"

\* the child functions: what children(output) returns
CallChildren(children, output) ==
  CASE children = "wrap" -> Array(<<output, Element("Leaf", FALSE, None)>>)
    [] children = "chain" -> Element("Outer", FALSE, "wrap")

NoResult == [kind |-> "none"]
Error == [kind |-> "error"]
NoTrace == [entry |-> NoResult, invoked |-> <<>>, continued |-> <<>>]

(* ------------- context scopes: createContext, withContext ------------- *)
ScopeIds == 1..MaxScopes
NoScope == 0
\* what scope s can bind: a value of its own (so that a value read tells which
\* scope bound it), or undefined
ScopeValues == <<"value1", "value2", "value3", "value4", "value5">>
Bindable(s) == {ScopeValues[s], Undefined}
DefaultValue == "default"

\* the object scope s hands to withContext: at most one symbol bound (none: {})
Partials(s, symbols) ==
  {<<>>} \cup UNION {[{k} -> Bindable(s)] : k \in symbols}

\* createContextSymbol: Symbol.for(`gensx.context.${contextCounter++}`)
CreateContextSymbolReuses(h) ==
  [symbol |-> h.contextCounter, heap |-> h]

CreateContextSymbol(h) ==
  [symbol |-> h.contextCounter,
   heap |-> [h EXCEPT !.contextCounter = @ + 1]]

\* createContext(defaultValue): a context object with a fresh symbol
CreateContext(h, defaultValue) ==
  LET c == CreateContextSymbol(h)
  IN [c.heap EXCEPT !.contexts =
        Append(@, [symbol |-> c.symbol, defaultValue |-> defaultValue])]

\* the root frame: new ExecutionContext({})
RootRef == 1
NoRef == 0
NewHeap ==
  [contextCounter |-> 0, contexts |-> <<>>,
   frames |-> <<[context |-> <<>>, parent |-> NoRef]>>]

\* ExecutionContext.get: the frame's own entry, else the parent's
RECURSIVE Get(_, _, _)
Get(frames, this, key) ==
  IF key \in DOMAIN frames[this].context THEN frames[this].context[key]
  ELSE IF frames[this].parent = NoRef THEN Undefined
  ELSE Get(frames, frames[this].parent, key)

\* ExecutionContext.withContext: the receiver itself when nothing is bound, else
\* a new frame (merged bindings, parent = receiver); yields the heap and the ref
ExecutionContextWithContextInPlace(h, this, newContext) ==
  [heap |-> [h EXCEPT !.frames[this].context =
               [k \in DOMAIN @ \cup DOMAIN newContext |->
                  IF k \in DOMAIN newContext THEN newContext[k] ELSE @[k]]],
   ref |-> this]

ExecutionContextWithContextNoInherit(h, this, newContext) ==
  IF DOMAIN newContext = {} THEN [heap |-> h, ref |-> this]
  ELSE [heap |-> [h EXCEPT !.frames =
                    Append(@, [context |-> newContext, parent |-> NoRef])],
        ref |-> Len(h.frames) + 1]

ExecutionContextWithContext(h, this, newContext) ==
  IF DOMAIN newContext = {} THEN [heap |-> h, ref |-> this]
  ELSE LET own == h.frames[this].context
           mergedContext ==
             [k \in DOMAIN own \cup DOMAIN newContext |->
                IF k \in DOMAIN newContext THEN newContext[k] ELSE own[k]]
       IN [heap |-> [h EXCEPT !.frames =
                       Append(@, [context |-> mergedContext, parent |-> this])],
           ref |-> Len(h.frames) + 1]

\* useContext, given the frame getCurrentContext returned
UseContextNoDefault(h, frame, context) == Get(h.frames, frame, context.symbol)

UseContext(h, frame, context) ==
  LET value == Get(h.frames, frame, context.symbol)
  IN IF value = Undefined THEN context.defaultValue ELSE value

\* the module state of context.ts once configureAsyncLocalStorage has settled
NewModule(asyncHooks) ==
  [contextStorage |-> asyncHooks, globalContext |-> RootRef,
   prevContext |-> RootRef, running |-> NoScope]

\* a withContext call; sync, async: what fn's useContext calls returned, per
\* context, before its first await and in its last continuation
NotEntered ==
  [pc |-> "idle", caller |-> NoScope, binding |-> <<>>, entered |-> NoRef,
   prev |-> NoRef, frame |-> NoRef, sync |-> <<>>, async |-> <<>>,
   outcome |-> "pending"]

NoObs == [overlap |-> FALSE]

(* -------------------------- stream components ------------------------- *)
\* the promise of an invocation that has not settled
Pending == [kind |-> "pending", value |-> Undefined]
\* the longest token sequence a user generator yields
MaxTokens == 2
Tokens == {"a", "b"}
\* props.stream as the caller wrote it
StreamProps == {"true", "false", "absent"}
\* the executed stream component, and the one its function returns when stacked
Outer == 1
Inner == 2
Invocations == {Outer, Inner}
\* the iterator the user function returned (the wrapped ones are named by their
\* invocation)
SourceIterator == 0
\* how the user generator finishes after its tokens: it returns, or throws this
Ends == {"return"} \cup Errors \cup NonErrors

RECURSIVE Concat(_)
Concat(tokens) ==
  IF tokens = <<>> THEN "" ELSE Head(tokens) \o Concat(Tail(tokens))

Token(v) == [kind |-> "token", value |-> v]
Done == [kind |-> "done", value |-> Undefined]
Thrown(e) == [kind |-> "throw", value |-> e]

NotCalled ==
  [pc |-> "idle", stream |-> "absent", context |-> rootContext,
   accumulated |-> "", result |-> "", outcome |-> Pending]
NotDelivered ==
  [to |-> "none", kind |-> "none", value |-> Undefined, pos |-> 0, ended |-> FALSE]
NotConsuming == [state |-> "idle", received |-> <<>>, error |-> Undefined]

NewStream(props, source) ==
  [props |-> props, source |-> source, pos |-> 0,
   inv |-> [i \in Invocations |-> NotCalled],
   delivered |-> NotDelivered, consumer |-> NotConsuming]

NoStream ==
  NewStream([stream |-> "absent", stacked |-> FALSE, children |-> FALSE],
            [tokens |-> <<>>, end |-> "return"])

\* if (props.stream)
WantsStreamUnlessFalse(stream) == stream # "false"

WantsStream(stream) == stream = "true"

\* accumulated += token, result += token
AccumulateLast(accumulated, token) == token

Accumulate(accumulated, token) == accumulated \o token

\* next() on the user generator: its next token, its return or what it throws
SourceNext(s) ==
  IF s.pos < Len(s.source.tokens)
    THEN [s |-> [s EXCEPT !.pos = @ + 1], item |-> Token(s.source.tokens[s.pos + 1])]
    ELSE [s |-> s,
          item |-> IF s.source.end = "return" THEN Done ELSE Thrown(s.source.end)]

\* wrappedIterator after its for await loop ended
WrappedIteratorEnd(m, nodeId, accumulated) == CompleteNode(m, nodeId, accumulated)

\* wrappedIterator's catch block
WrappedIteratorCatch(m, nodeId, accumulated, error) ==
  IF error \in Errors
    THEN CompleteNode(
           AddMetadata(m, nodeId, [k \in MetaKeys |->
             IF k = "error" THEN Message(error) ELSE Undefined]),
           nodeId, accumulated)
    ELSE m

\* GsxStreamComponent's catch block
StreamCatch(m, nodeId, error) ==
  IF error \in Errors
    THEN CompleteNode(
           AddMetadata(m, nodeId, [k \in MetaKeys |->
             IF k = "error" THEN Message(error) ELSE Undefined]),
           nodeId, Undefined)
    ELSE m

\* the iterator an invocation got from resolveDeep(fn(props)): the user
\* generator, or the wrapped iterator of the stream component fn returned
Under(s, i) == IF i = Outer /\ s.props.stacked THEN Inner ELSE SourceIterator

\* next() on an iterator: the user generator, or a wrappedIterator, which pulls
\* from the iterator under it, accumulates and yields, and completes its node
\* when that iterator ends or throws
RECURSIVE IteratorNext(_, _, _)
IteratorNext(s, m, it) ==
  IF it = SourceIterator
    THEN [s |-> SourceNext(s).s, m |-> m, item |-> SourceNext(s).item]
    ELSE LET r == IteratorNext(s, m, Under(s, it))
             acc == r.s.inv[it].accumulated
         IN CASE r.item.kind = "token" ->
                   [s |-> [r.s EXCEPT !.inv[it].accumulated =
                                         Accumulate(@, r.item.value)],
                    m |-> r.m, item |-> r.item]
              [] r.item.kind = "done" ->
                   [s |-> [r.s EXCEPT !.inv[it].pc = "done"],
                    m |-> WrappedIteratorEnd(r.m, it, acc), item |-> Done]
              [] r.item.kind = "throw" ->
                   [s |-> [r.s EXCEPT !.inv[it].pc = "done"],
                    m |-> WrappedIteratorCatch(r.m, it, acc, r.item.value),
                    item |-> r.item]

\* return wrappedIterator(): the generator object, its body not started
ReturnWrappedIteratorDrained(s, i) ==
  [s EXCEPT !.pos = Len(s.source.tokens),
            !.inv[i].pc = "returned",
            !.inv[i].outcome = [kind |-> "stream", value |-> Undefined]]

ReturnWrappedIterator(s, i) ==
  [s EXCEPT !.inv[i].pc = "returned",
            !.inv[i].outcome = [kind |-> "stream", value |-> Undefined]]

\* JsxWrapper: the output handed to the child function
ResolveChildrenOutputNull(result) == [kind |-> "null", value |-> Undefined]

ResolveChildrenOutput(result) == result

(* ------------------- calls on the manager, retry loops ----------------- *)
\* the last call made on the manager: which method, on which id (known to the
\* manager or not when the call was made), with which arguments, and the bodies
\* it handed to fetch; whether a follow-up publish was ever requested
LastCall(n, op, id, known, metadata, m) ==
  [n |-> n, op |-> op, id |-> id, known |-> known, metadata |-> metadata,
   published |-> m.outbox, queued |-> call.queued \/ m.pendingUpdate]
NoCall ==
  [n |-> 0, op |-> "none", id |-> NoId, known |-> FALSE, metadata |-> NoMetadata,
   published |-> <<>>, queued |-> FALSE]

\* the largest maxAttempts a caller passes
MaxAttempts == 3
\* maxAttempts = 3, retry?.maxAttempts ?? 3
DefaultMaxAttempts == 3
\* no attempt made yet; props without maxAttempts
NoAttempt == 0

\* e instanceof Error ? e.message : String(e)
ErrorText(e) == IF e \in Errors THEN Message(e) ELSE e

\* the component function called with its props: nothing attempted yet
NewRetry(component, maxAttempts, hooks, backoff) ==
  [component |-> component,
   maxAttempts |-> IF maxAttempts = NoAttempt THEN DefaultMaxAttempts ELSE maxAttempts,
   hooks |-> hooks, backoff |-> backoff,
   pc |-> "called", attempt |-> NoAttempt, lastError |-> Undefined,
   attempts |-> <<>>, failures |-> <<>>, onRetry |-> <<>>, shouldRetry |-> <<>>,
   outcome |-> Pending]
\* a retry loop that was not started
NoRetry == [NewRetry("none", NoAttempt, FALSE, FALSE) EXCEPT !.pc = "idle"]

\* the for loop from its condition to the await of the attempt: the messages get
\* one system message naming lastError on every attempt but the first; when the
\* condition fails the function returns undefined
Iterate(r) ==
  IF r.attempt + 1 <= r.maxAttempts
    THEN [r EXCEPT !.attempt = @ + 1, !.pc = "attempting",
                   !.attempts = Append(@, [n |-> r.attempt + 1,
                                           retryMessage |->
                                             IF r.attempt + 1 > 1
                                               THEN <<r.lastError>> ELSE <<>>])]
    ELSE [r EXCEPT !.pc = "done",
                   !.outcome = [kind |-> "fulfilled", value |-> Undefined]]

Failed(r, e) ==
  [r EXCEPT !.lastError = ErrorText(e), !.failures = Append(@, e)]
GivesUp(r) ==
  [r EXCEPT !.pc = "done",
            !.outcome = [kind |-> "rejected", value |-> r.lastError]]

\* RetryTransform's catch block
RetryTransformCatchNeverThrows(r, e) == Iterate(Failed(r, e))

RetryTransformCatch(r, e) ==
  IF r.attempt = r.maxAttempts
    THEN GivesUp(Failed(r, e))
    ELSE Iterate(Failed(r, e))

\* StructuredOutput's catch block: onRetry, shouldRetry (true when not given),
\* throw or back off and go on
StructuredOutputCatchIgnoresAnswer(r, e, answer) ==
  LET r1 == IF r.hooks
              THEN [Failed(r, e) EXCEPT
                      !.onRetry = Append(@, [attempt |-> r.attempt,
                                             error |-> ErrorText(e)]),
                      !.shouldRetry = Append(@, answer)]
              ELSE Failed(r, e)
  IN IF r.attempt = r.maxAttempts
       THEN GivesUp(r1)
       ELSE IF r.backoff THEN [r1 EXCEPT !.pc = "backoff"] ELSE Iterate(r1)

StructuredOutputCatch(r, e, answer) ==
  LET r1 == IF r.hooks
              THEN [Failed(r, e) EXCEPT
                      !.onRetry = Append(@, [attempt |-> r.attempt,
                                             error |-> ErrorText(e)]),
                      !.shouldRetry = Append(@, answer)]
              ELSE Failed(r, e)
      shouldRetry == IF r.hooks THEN answer ELSE TRUE
  IN IF ~shouldRetry \/ r.attempt = r.maxAttempts
       THEN GivesUp(r1)
       ELSE IF r.backoff THEN [r1 EXCEPT !.pc = "backoff"] ELSE Iterate(r1)

ScopesIdle ==
  /\ heap = NewHeap
  /\ mgr = NewModule(TRUE)
  /\ scope = [s \in ScopeIds |-> NotEntered]
  /\ obs = NoObs
  /\ task = <<>>
  /\ trace = NoTrace
  /\ sc = NoStream
  /\ call = NoCall
  /\ retry = NoRetry

(* --------------------------- component wrapper ------------------------ *)
NotInvoked ==
  [pc |-> "idle", invoker |-> NoId, context |-> rootContext, scope |-> rootContext,
   raised |-> Undefined, outcome |-> Pending]

\* GsxComponent after withCurrentNode fulfilled: complete the node, return the result
ReturnSkipComplete(m, nodeId, result) ==
  [cm |-> m, outcome |-> [kind |-> "fulfilled", value |-> result]]

Return(m, nodeId, result) ==
  [cm |-> CompleteNode(m, nodeId, result),
   outcome |-> [kind |-> "fulfilled", value |-> result]]

\* GsxComponent's catch block: record the error on the node, rethrow
CatchSwallows(m, nodeId, error) ==
  [cm |-> IF error \in Errors
            THEN CompleteNode(
                   AddMetadata(m, nodeId, [k \in MetaKeys |->
                     IF k = "error" THEN Message(error) ELSE Undefined]),
                   nodeId, Undefined)
            ELSE m,
   outcome |-> [kind |-> "fulfilled", value |-> Undefined]]

Catch(m, nodeId, error) ==
  [cm |-> IF error \in Errors
            THEN CompleteNode(
                   AddMetadata(m, nodeId, [k \in MetaKeys |->
                     IF k = "error" THEN Message(error) ELSE Undefined]),
                   nodeId, Undefined)
            ELSE m,
   outcome |-> [kind |-> "rejected", value |-> error]]

Children(i) == {c \in NodeIds : comp[c].pc # "idle" /\ comp[c].invoker = i}

\* GsxComponent up to its first await: read the current context, call addNode.
\* The caller is code outside every component, or the body of an invocation: its
\* synchronous part (inside contextManager.run) or a continuation after an await.
Invoke ==
  \E i \in NodeIds, caller \in NodeIds \cup {NoId} :
    /\ comp[i].pc = "idle"
    /\ \A j \in NodeIds : j < i => comp[j].pc # "idle"
    /\ IF ctx.running # NoId
         THEN caller = ctx.running
         ELSE IF caller = NoId THEN TRUE ELSE comp[caller].pc = "body"
    /\ comp' = [comp EXCEPT ![i].pc = "addNode", ![i].invoker = caller,
                            ![i].context = GetCurrentContext(caller)]
    /\ UNCHANGED <<scopeVars, resolveVars, streamVars, callVars, retryVars, cm, ctx, hist>>

\* addNode resumes after generateUUID: the node is registered under the node id
\* read from the context; then withCurrentNode is called, which awaits
AddNodeResumes ==
  \E i \in NodeIds :
    /\ ctx.running = NoId
    /\ comp[i].pc = "addNode"
    /\ cm' = Sent(AddNode(cm, i, GetCurrentNodeId(comp[i].context)))
    /\ comp' = [comp EXCEPT ![i].pc = "scope"]
    /\ UNCHANGED <<scopeVars, resolveVars, streamVars, callVars, retryVars, ctx, hist>>

\* withContext resumes: contextManager.run(context.withNode(nodeId), ...) starts
\* the user function
RunStarts ==
  \E i \in NodeIds :
    /\ ctx.running = NoId
    /\ comp[i].pc = "scope"
    /\ comp' = [comp EXCEPT ![i].pc = "dispatch",
                            ![i].scope = WithNode(comp[i].context, i)]
    /\ ctx' = Run(ctx, WithNode(comp[i].context, i), i)
    /\ UNCHANGED <<scopeVars, resolveVars, streamVars, callVars, retryVars, cm, hist>>

\* the user function reaches its first await (or returns): run's finally
RunReturns ==
  \E i \in NodeIds :
    /\ ctx.running = i
    /\ comp[i].pc = "dispatch"
    /\ comp' = [comp EXCEPT ![i].pc = "body"]
    /\ ctx' = RunFinally(ctx)
    /\ UNCHANGED <<scopeVars, resolveVars, streamVars, callVars, retryVars, cm, hist>>

\* the user function has returned and its result is deeply resolved: every
\* invocation it started has returned
ReturnsAwaitsPublish ==
  \E i \in NodeIds, result \in Values :
    /\ ctx.running = NoId
    /\ cm.fetches = 0
    /\ comp[i].pc = "body"
    /\ \A c \in Children(i) : comp[c].outcome.kind = "fulfilled"
    /\ LET r == Return(cm, i, result)
       IN /\ cm' = Sent(r.cm)
          /\ comp' = [comp EXCEPT ![i].pc = "done", ![i].outcome = r.outcome]
    /\ UNCHANGED <<scopeVars, resolveVars, streamVars, callVars, retryVars, ctx, hist>>

Returns ==
  \E i \in NodeIds, result \in Values :
    /\ ctx.running = NoId
    /\ comp[i].pc = "body"
    /\ \A c \in Children(i) : comp[c].outcome.kind = "fulfilled"
    /\ LET r == Return(cm, i, result)
       IN /\ cm' = Sent(r.cm)
          /\ comp' = [comp EXCEPT ![i].pc = "done", ![i].outcome = r.outcome]
    /\ UNCHANGED <<scopeVars, resolveVars, streamVars, callVars, retryVars, ctx, hist>>

\* the user function throws, or the resolution of its result rejects (with what an
\* invocation it started threw, or with an error of its own)
Throws ==
  \E i \in NodeIds :
    /\ ctx.running = NoId
    /\ comp[i].pc = "body"
    /\ \E error \in Errors \cup NonErrors :
         LET r == Catch(cm, i, error)
         IN /\ cm' = Sent(r.cm)
            /\ comp' = [comp EXCEPT ![i].pc = "done", ![i].raised = error,
                                    ![i].outcome = r.outcome]
    /\ UNCHANGED <<scopeVars, resolveVars, streamVars, callVars, retryVars, ctx, hist>>

InitWF ==
  /\ \E enabled \in BOOLEAN : cm = NewManager(enabled)
  /\ comp = [i \in NodeIds |-> NotInvoked]
  /\ \E asyncHooks \in BOOLEAN : ctx = NewContextManager(asyncHooks)
  /\ hist = NoHistory
  /\ ScopesIdle

(* ------------------- calls made directly on the manager ---------------- *)
\* a call that reaches updateCheckpoint while a write is in flight
Burst(m, mutating) == IF mutating /\ m.activeCheckpoint THEN hist.burst + 1 ELSE hist.burst

\* addNode(partial with a fresh id, parentId?)
CallAddNode ==
  /\ hist.ops < MaxOps
  /\ \E id \in NodeIds \ DOMAIN cm.nodes, parentId \in (NodeIds \cup {NoId}) :
       /\ parentId # id
       /\ cm' = Sent(AddNode(cm, id, parentId))
       /\ hist' = [Recorded(hist, AddNode(cm, id, parentId)) EXCEPT
                     !.ops = @ + 1, !.burst = Burst(cm, TRUE),
                     !.requested = (id :> parentId) @@ @]
  /\ UNCHANGED <<scopeVars, resolveVars, streamVars, callVars, retryVars, comp, ctx>>

\* completeNode(id, output), on a known or an unknown id
CallCompleteNode ==
  /\ hist.ops < MaxOps
  /\ \E id \in NodeIds, output \in Values \cup {Undefined} :
       /\ cm' = Sent(CompleteNode(cm, id, output))
       /\ hist' = [Recorded(hist, CompleteNode(cm, id, output)) EXCEPT
                     !.ops = @ + 1,
                     !.burst = Burst(cm, id \in DOMAIN cm.nodes),
                     !.outputs = IF id \in DOMAIN cm.nodes
                                   THEN (id :> output) @@ @ ELSE @]
  /\ UNCHANGED <<scopeVars, resolveVars, streamVars, callVars, retryVars, comp, ctx>>

\* addMetadata(id, {key: value})
CallAddMetadata ==
  /\ hist.ops < MaxOps
  /\ \E id \in NodeIds, key \in MetaKeys, val \in MetaVals :
       LET m == AddMetadata(cm, id, [k \in MetaKeys |-> IF k = key THEN val ELSE Undefined])
       IN /\ cm' = Sent(m)
          /\ hist' = [Recorded(hist, m) EXCEPT
                        !.ops = @ + 1, !.burst = Burst(cm, id \in DOMAIN cm.nodes)]
  /\ UNCHANGED <<scopeVars, resolveVars, streamVars, callVars, retryVars, comp, ctx>>

\* write()
CallWrite ==
  /\ hist.ops < MaxOps
  /\ cm' = Sent(Write(cm))
  /\ hist' = [Recorded(hist, Write(cm)) EXCEPT !.ops = @ + 1, !.burst = Burst(cm, TRUE)]
  /\ UNCHANGED <<scopeVars, resolveVars, streamVars, callVars, retryVars, comp, ctx>>

\* a fetch comes back: writeCheckpoint settles and its .finally callback runs
Settle(m, outcome) ==
  LET m1 == [m EXCEPT !.fetches = @ - 1]
      settles == WriteCheckpointSettles(outcome)
  IN [Finally(m1) EXCEPT !.unhandledRejection = @ \/ settles = "rejected"]

SettleCheckpoint ==
  /\ cm.fetches > 0
  /\ \E outcome \in Outcomes :
          /\ cm' = Sent(Settle(cm, outcome))
          /\ hist' = [Recorded(hist, Settle(cm, outcome)) EXCEPT
                        !.burst = 0, !.lastBurst = hist.burst,
                        !.settled = @ + 1,
                        !.failed = @ \/ outcome # "ok"]
  /\ UNCHANGED <<scopeVars, resolveVars, streamVars, callVars, retryVars, comp, ctx>>

InitCM ==
  /\ \E enabled \in BOOLEAN : cm = NewManager(enabled)
  /\ comp = [i \in NodeIds |-> NotInvoked]
  /\ ctx = NewContextManager(TRUE)
  /\ hist = NoHistory
  /\ ScopesIdle

NextCM ==
  \/ CallAddNode
  \/ CallCompleteNode
  \/ CallAddMetadata
  \/ CallWrite
  \/ SettleCheckpoint

Spec == InitCM /\ [][NextCM]_vars

\* the same, while a workflow of components runs
CheckpointSettles ==
  /\ ctx.running = NoId
  /\ cm.fetches > 0
  /\ \E outcome \in Outcomes : cm' = Sent(Settle(cm, outcome))
  /\ UNCHANGED <<scopeVars, resolveVars, streamVars, callVars, retryVars, comp, ctx, hist>>

NextWF ==
  \/ Invoke
  \/ AddNodeResumes
  \/ RunStarts
  \/ RunReturns
  \/ Returns
  \/ Throws
  \/ CheckpointSettles

SpecWF == InitWF /\ [][NextWF]_vars

\* every component that can take its next step takes it; nothing is assumed of
\* the round trips of the publisher
FairWF ==
  /\ SpecWF
  /\ WF_vars(AddNodeResumes)
  /\ WF_vars(RunStarts)
  /\ WF_vars(RunReturns)
  /\ WF_vars(Returns)

\* every publish round trip eventually finishes
FairSpec == Spec /\ WF_vars(SettleCheckpoint)

TypeOK ==
  /\ DOMAIN cm.nodes \subseteq NodeIds
  /\ cm.root \in NodeIds \cup {NoId}

(* ----------------------- a run of context scopes ---------------------- *)
\* contextManager.getCurrentContext, called by code of scope `caller` (NoScope:
\* code outside every scope). AsyncLocalStorage.getStore yields the store of the
\* run the calling code descends from.
GetCurrentContextInGlobalOnly(m, store) == m.globalContext

\* m: the module state; store: what contextStorage.getStore() yields to the caller
GetCurrentContextIn(m, store) ==
  IF m.contextStorage THEN store ELSE m.globalContext

CurrentContextOf(caller) ==
  GetCurrentContextIn(mgr, IF caller = NoScope THEN RootRef ELSE scope[caller].frame)

\* code that can run now: the function being dispatched, else any continuation
CanRun(s) ==
  IF mgr.running # NoScope THEN s = mgr.running
  ELSE IF s = NoScope THEN TRUE ELSE scope[s].pc = "body"

InFlight(s) == scope[s].pc \notin {"idle", "done"}

\* the scopes enclosing code of scope s, s included
RECURSIVE Enclosing(_)
Enclosing(s) ==
  IF s = NoScope THEN {} ELSE {s} \cup Enclosing(scope[s].caller)

\* createContext is called while the module loads, before a workflow runs
CreateContextCall ==
  /\ Len(heap.contexts) < MaxKeys
  /\ \A s \in ScopeIds : scope[s].pc = "idle"
  /\ heap' = CreateContext(heap, DefaultValue)
  /\ UNCHANGED <<wfVars, resolveVars, streamVars, callVars, retryVars, mgr, scope, obs>>

\* withContext(context, fn) up to `await configureAsyncLocalStorage`
Enter ==
  \E s \in ScopeIds, caller \in ScopeIds \cup {NoScope} :
    /\ scope[s].pc = "idle"
    /\ \A t \in ScopeIds : t < s => scope[t].pc # "idle"
    /\ CanRun(caller)
    /\ \E context \in Partials(s, {heap.contexts[i].symbol : i \in DOMAIN heap.contexts}) :
         scope' = [scope EXCEPT ![s].pc = "configure", ![s].caller = caller,
                                ![s].binding = context,
                                ![s].entered = CurrentContextOf(caller)]
    /\ obs' = [obs EXCEPT !.overlap =
                 @ \/ \E t \in ScopeIds : InFlight(t) /\ t \notin Enclosing(caller)]
    /\ UNCHANGED <<wfVars, resolveVars, streamVars, callVars, retryVars, heap, mgr>>

\* fn calls useContext for every context created
ReadAll(h, frame) ==
  [i \in DOMAIN h.contexts |-> UseContext(h, frame, h.contexts[i])]

\* withContext resumes: read the current context, derive the new frame, and
\* contextManager.run(newContext, ...) starts fn, which reads the contexts
WithContextResumes ==
  \E s \in ScopeIds :
    /\ mgr.running = NoScope
    /\ scope[s].pc = "configure"
    /\ LET prevContext == CurrentContextOf(scope[s].caller)
           newContext == ExecutionContextWithContext(heap, prevContext, scope[s].binding)
       IN /\ heap' = newContext.heap
          /\ mgr' = Run(mgr, newContext.ref, s)
          /\ scope' = [scope EXCEPT
                         ![s].pc = "dispatch", ![s].prev = prevContext,
                         ![s].frame = newContext.ref,
                         ![s].sync = ReadAll(heap',
                                      GetCurrentContextIn(mgr', newContext.ref))]
    /\ UNCHANGED <<wfVars, resolveVars, streamVars, callVars, retryVars, obs>>

\* fn reaches its first await: run's finally
FnSuspends ==
  \E s \in ScopeIds :
    /\ mgr.running = s
    /\ scope[s].pc = "dispatch"
    /\ scope' = [scope EXCEPT ![s].pc = "body"]
    /\ mgr' = RunFinally(mgr)
    /\ UNCHANGED <<wfVars, resolveVars, streamVars, callVars, retryVars, heap, obs>>

\* fn's last continuation reads the contexts again, and the promise withContext
\* returned settles: fn's result is resolved (every scope entered from it has
\* finished), or fn or the resolution threw
ScopeSettles ==
  \E s \in ScopeIds, outcome \in {"fulfilled", "rejected"} :
    /\ mgr.running = NoScope
    /\ scope[s].pc = "body"
    /\ outcome = "fulfilled" =>
         \A t \in ScopeIds : (scope[t].pc # "idle" /\ scope[t].caller = s)
                                => scope[t].pc = "done"
    /\ scope' = [scope EXCEPT ![s].pc = "done", ![s].outcome = outcome,
                               ![s].async = ReadAll(heap, CurrentContextOf(s))]
    /\ UNCHANGED <<wfVars, resolveVars, streamVars, callVars, retryVars, heap, mgr, obs>>

InitScopes ==
  /\ cm = NewManager(FALSE)
  /\ comp = [i \in NodeIds |-> NotInvoked]
  /\ ctx = NewContextManager(TRUE)
  /\ hist = NoHistory
  /\ heap = NewHeap
  /\ \E asyncHooks \in BOOLEAN : mgr = NewModule(asyncHooks)
  /\ scope = [s \in ScopeIds |-> NotEntered]
  /\ obs = NoObs
  /\ task = <<>>
  /\ trace = NoTrace
  /\ sc = NoStream
  /\ call = NoCall
  /\ retry = NoRetry

NextScopes ==
  \/ CreateContextCall
  \/ Enter
  \/ WithContextResumes
  \/ FnSuspends
  \/ ScopeSettles

SpecScopes == InitScopes /\ [][NextScopes]_vars

(* ----------------------- resolveDeep and execute ---------------------- *)
\* one call of an async function: the value it works on, the ambient streaming
\* flag, where it is suspended, the call awaiting it (parent, slot), the calls it
\* awaits (kids) and the order in which they settled
NewTask(fn, value, streaming, parent, slot) ==
  [fn |-> fn, value |-> value, streaming |-> streaming, pc |-> "called",
   parent |-> parent, slot |-> slot, result |-> NoResult, held |-> NoResult,
   kids |-> <<>>, order |-> <<>>]

\* the call's promise settles; a Promise.all awaiting it notes the arrival
Finish(st, t, pc, result) ==
  LET p == st.task[t].parent
      pool == [st.task EXCEPT ![t].pc = pc, ![t].result = result]
  IN [st EXCEPT !.task =
        IF p = 0 THEN pool
        ELSE [pool EXCEPT ![p].order = Append(@, st.task[t].slot)]]

\* isInStreamingContext(): the streaming flag of the ambient context
IsInStreamingContext(st, t) == st.task[t].streaming

\* resolveDeep, streamable case: pass the streamable through, or await its value
PassThroughNever(inStreamingContext) == FALSE

PassThrough(inStreamingContext) == inStreamingContext

\* Promise.all: the results by position
PromiseAllByArrival(results, order) ==
  [i \in 1..Len(results) |-> results[order[i]]]

PromiseAll(results, order) ==
  [i \in 1..Len(results) |-> results[i]]

\* execute: what the child function is called with
ChildrenArgumentUnresolved(resolvedResult, componentResult) == componentResult

ChildrenArgument(resolvedResult, componentResult) == resolvedResult

\* execute: element === null || element === undefined
IsNullOrUndefinedNever(element) == FALSE

IsNullOrUndefined(element) == element.kind \in {"null", "undefined"}

\* the synchronous part of a call, up to its first await; array elements are
\* mapped through resolveDeep one after the other, each running its own
\* synchronous part, before Promise.all is awaited
RECURSIVE Call(_, _)
RECURSIVE CallEach(_, _, _)
Call(st, t) ==
  LET this == st.task[t]
      value == this.value
  IN CASE this.fn = "execute" /\ IsNullOrUndefined(value) ->
            Finish(st, t, "rejected", Error)
       [] this.fn = "execute" /\ value.kind = "element" ->
            LET invoked == [st EXCEPT !.task[t].pc = "awaitComponent",
                                      !.trace.invoked = Append(@, value.type)]
            IN IF IsStreamComponent(value.type)
                 THEN CallEach(invoked, t, <<ComponentBody(value.type)>>)
                 ELSE invoked
       [] this.fn = "execute" /\ ~IsNullOrUndefined(value)
                                /\ value.kind # "element" ->
            Call([st EXCEPT !.task[t].fn = "resolveDeep"], t)
       [] this.fn = "resolveDeep" /\ value.kind = "promise" ->
            [st EXCEPT !.task[t].pc = "awaitValue"]
       [] this.fn = "resolveDeep" /\ value.kind = "streamable" ->
            IF PassThrough(IsInStreamingContext(st, t))
              THEN Finish(st, t, "done", value)
              ELSE [st EXCEPT !.task[t].pc = "awaitFinal"]
       [] this.fn = "resolveDeep" /\ value.kind = "array" ->
            CallEach([st EXCEPT !.task[t].pc = "awaitAll"], t, value.items)
       [] this.fn = "resolveDeep" /\ value.kind = "element" ->
            LET invoked == [st EXCEPT !.task[t].pc = "awaitComponent",
                                      !.trace.invoked = Append(@, value.type)]
            IN IF IsStreamComponent(value.type)
                 THEN CallEach(invoked, t, <<ComponentBody(value.type)>>)
                 ELSE invoked
       [] this.fn = "resolveDeep" /\ value.kind \in {"prim", "null", "undefined"} ->
            Finish(st, t, "done", value)

\* call resolveDeep on items[n], n = the number of calls made so far plus one;
\* a stream component's function is resolved inside its streaming scope
CallEach(st, t, items) ==
  LET n == Len(st.task[t].kids) + 1
      this == st.task[t]
      streaming == IF this.pc = "awaitComponent" THEN this.value.stream
                   ELSE this.streaming
      kid == Len(st.task) + 1
  IN IF n > Len(items) THEN st
     ELSE CallEach(
            Call([st EXCEPT !.task =
                    Append([@ EXCEPT ![t].kids = Append(@, kid)],
                           NewTask("resolveDeep", items[n], streaming, t, n))],
                 kid),
            t, items)

\* `return f(value)`: the call goes on as a call of f
TailCallReturnsValue(st, t, fn, value) == Finish(st, t, "done", value)

TailCall(st, t, fn, value) ==
  Call([st EXCEPT !.task[t].fn = fn, !.task[t].value = value,
                  !.task[t].pc = "called", !.task[t].held = NoResult,
                  !.task[t].kids = <<>>, !.task[t].order = <<>>], t)

Settled(t) == task[t].pc \in {"done", "rejected"}
State == [task |-> task, trace |-> trace]
Becomes(st) == task' = st.task /\ trace' = st.trace

\* what the caller hands over
Atoms ==
  {Prim("x"), Promise(Prim("y")), Promise(Promise(Prim("x"))),
   Element("Outer", FALSE, None), Streamable(Prim("tokens"))}
Arrays == {Array(items) : items \in UNION {[1..n -> Atoms] : n \in 0..MaxItems}}
Elements ==
  {Element(type, stream, children) :
     type \in {"Leaf", "Outer", "Stream"}, stream \in BOOLEAN,
     children \in {None, "wrap", "chain"}}
Inputs ==
  Atoms \cup Arrays \cup {e \in Elements : e.stream => IsStreamComponent(e.type)}
    \cup {Null, Undef, Promise(Array(<<Promise(Prim("y")), Prim("x")>>)),
          Element("Deep", FALSE, None), Promise(Element("Deep", FALSE, None))}

ResolveDeepCall ==
  /\ task = <<>>
  /\ \E value \in Inputs, streaming \in BOOLEAN :
       Becomes(Call([task |-> <<NewTask("resolveDeep", value, streaming, 0, 0)>>,
                     trace |-> [trace EXCEPT !.entry =
                                  [kind |-> "resolveDeep", value |-> value,
                                   streaming |-> streaming]]], 1))
  /\ UNCHANGED <<wfVars, scopeVars, streamVars, callVars, retryVars>>

ExecuteCall ==
  /\ task = <<>>
  /\ \E element \in Inputs, streaming \in BOOLEAN :
       Becomes(Call([task |-> <<NewTask("execute", element, streaming, 0, 0)>>,
                     trace |-> [trace EXCEPT !.entry =
                                  [kind |-> "execute", value |-> element,
                                   streaming |-> streaming]]], 1))
  /\ UNCHANGED <<wfVars, scopeVars, streamVars, callVars, retryVars>>

\* `await value` resumes: return resolveDeep(resolved)
PromiseFulfils ==
  \E t \in DOMAIN task :
    /\ task[t].pc = "awaitValue"
    /\ Becomes(TailCall(State, t, "resolveDeep", task[t].value.of))
    /\ UNCHANGED <<wfVars, scopeVars, streamVars, callVars, retryVars>>

\* `await value.value` resumes: return finalValue
FinalFulfils ==
  \E t \in DOMAIN task :
    /\ task[t].pc = "awaitFinal"
    /\ Becomes(Finish(State, t, "done", task[t].value.value))
    /\ UNCHANGED <<wfVars, scopeVars, streamVars, callVars, retryVars>>

\* `await Promise.all(...)` resumes: return resolvedArray
AllFulfil ==
  \E t \in DOMAIN task :
    /\ task[t].pc = "awaitAll"
    /\ \A i \in DOMAIN task[t].kids : Settled(task[t].kids[i])
    /\ Becomes(Finish(State, t, "done",
                 Array(PromiseAll([i \in DOMAIN task[t].kids |->
                                     task[task[t].kids[i]].result],
                                  task[t].order))))
    /\ UNCHANGED <<wfVars, scopeVars, streamVars, callVars, retryVars>>

\* `await value.type(value.props)` resumes with componentResult (a stream
\* component's: what its scope resolved to). resolveDeep, and execute without
\* children: return resolveDeep(componentResult). execute with children: await
\* resolveDeep(componentResult).
ComponentReturns ==
  \E t \in DOMAIN task :
    /\ task[t].pc = "awaitComponent"
    /\ \A i \in DOMAIN task[t].kids : Settled(task[t].kids[i])
    /\ LET componentResult ==
             IF IsStreamComponent(task[t].value.type)
               THEN task[task[t].kids[1]].result
               ELSE ComponentBody(task[t].value.type)
       IN IF task[t].fn = "execute" /\ task[t].value.children # None
            THEN Becomes(CallEach(
                   [State EXCEPT !.task[t].pc = "awaitResolved",
                                 !.task[t].held = componentResult,
                                 !.task[t].kids = <<>>, !.task[t].order = <<>>],
                   t, <<componentResult>>))
            ELSE Becomes(TailCall(State, t, "resolveDeep", componentResult))
    /\ UNCHANGED <<wfVars, scopeVars, streamVars, callVars, retryVars>>

\* `await resolveDeep(componentResult)` resumes: call the child function
ResolvedArrives ==
  \E t \in DOMAIN task :
    /\ task[t].pc = "awaitResolved"
    /\ Settled(task[t].kids[1])
    /\ LET output == ChildrenArgument(task[task[t].kids[1]].result, task[t].held)
       IN /\ task' = [task EXCEPT
                        ![t].pc = "awaitChildren",
                        ![t].held = CallChildren(task[t].value.children, output)]
          /\ trace' = [trace EXCEPT !.continued =
                         Append(@, [children |-> task[t].value.children,
                                    output |-> output, of |-> task[t].held])]
    /\ UNCHANGED <<wfVars, scopeVars, streamVars, callVars, retryVars>>

\* `await element.props.children(resolvedResult)` resumes: return execute(...)
ChildrenReturns ==
  \E t \in DOMAIN task :
    /\ task[t].pc = "awaitChildren"
    /\ Becomes(TailCall(State, t, "execute", task[t].held))
    /\ UNCHANGED <<wfVars, scopeVars, streamVars, callVars, retryVars>>

InitResolve ==
  /\ cm = NewManager(FALSE)
  /\ comp = [i \in NodeIds |-> NotInvoked]
  /\ ctx = NewContextManager(TRUE)
  /\ hist = NoHistory
  /\ ScopesIdle

NextResolve ==
  \/ ResolveDeepCall
  \/ ExecuteCall
  \/ PromiseFulfils
  \/ FinalFulfils
  \/ AllFulfil
  \/ ComponentReturns
  \/ ResolvedArrives
  \/ ChildrenReturns

SpecResolve == InitResolve /\ [][NextResolve]_vars

(* ---------------------- a run of a stream component ------------------- *)
\* getCurrentContext() at the start of GsxStreamComponent: the executed component
\* is called outside every node scope; the stacked one is called by resolveDeep
\* after an await of the outer function, inside the outer withCurrentNode
StreamContext(c, s, i) ==
  IF i = Outer
    THEN rootContext
    ELSE IF c.contextStorage
           THEN WithNode(s.inv[Outer].context, Outer)
           ELSE c.globalContext

\* GsxStreamComponent up to its first await: read the context, call addNode
StreamInvoke ==
  \E i \in Invocations :
    /\ sc.inv[i].pc = "idle"
    /\ i = Inner => sc.props.stacked /\ sc.inv[Outer].pc = "resolving"
    /\ sc' = [sc EXCEPT !.inv[i].pc = "addNode",
                        !.inv[i].stream =
                           IF i = Outer THEN sc.props.stream ELSE "true",
                        !.inv[i].context = StreamContext(ctx, sc, i)]
    /\ UNCHANGED <<scopeVars, resolveVars, callVars, retryVars, wfVars>>

\* addNode resumes: the node is registered; withCurrentNode is called and awaits
StreamAddNodeResumes ==
  \E i \in Invocations :
    /\ sc.inv[i].pc = "addNode"
    /\ cm' = Sent(AddNode(cm, i, GetCurrentNodeId(sc.inv[i].context)))
    /\ sc' = [sc EXCEPT !.inv[i].pc = "scope"]
    /\ UNCHANGED <<scopeVars, resolveVars, callVars, retryVars, comp, ctx, hist>>

\* withContext resumes: contextManager.run calls the user function, which returns
\* (a promise of) its generator or element; run's finally
StreamRunStarts ==
  \E i \in Invocations :
    /\ sc.inv[i].pc = "scope"
    /\ ctx' = RunFinally(Run(ctx, WithNode(sc.inv[i].context, i), i))
    /\ sc' = [sc EXCEPT !.inv[i].pc = "resolving"]
    /\ UNCHANGED <<scopeVars, resolveVars, callVars, retryVars, cm, comp, hist>>

\* resolveDeep(fn(props)) fulfilled with the iterator: return the wrapped
\* iterator, or start the for await loop
StreamResolved ==
  \E i \in Invocations :
    /\ sc.inv[i].pc = "resolving"
    /\ Under(sc, i) # SourceIterator => sc.inv[Under(sc, i)].outcome.kind = "stream"
    /\ sc' = IF WantsStream(sc.inv[i].stream)
               THEN ReturnWrappedIterator(sc, i)
               ELSE [sc EXCEPT !.inv[i].pc = "draining"]
    /\ UNCHANGED <<scopeVars, resolveVars, callVars, retryVars, wfVars>>

\* one turn of the for await loop of the non-streaming case, then completeNode
\* and return, or the catch block
StreamDrain ==
  \E i \in Invocations :
    /\ sc.inv[i].pc = "draining"
    /\ LET r == IteratorNext(sc, cm, Under(sc, i))
           result == r.s.inv[i].result
       IN CASE r.item.kind = "token" ->
                 /\ sc' = [r.s EXCEPT !.inv[i].result = Accumulate(@, r.item.value)]
                 /\ cm' = Sent(r.m)
            [] r.item.kind = "done" ->
                 /\ sc' = [r.s EXCEPT !.inv[i].pc = "done",
                                      !.inv[i].outcome =
                                         [kind |-> "string", value |-> result]]
                 /\ cm' = Sent(CompleteNode(r.m, i, result))
            [] r.item.kind = "throw" ->
                 /\ sc' = [r.s EXCEPT !.inv[i].pc = "done",
                                      !.inv[i].outcome =
                                         [kind |-> "rejected", value |-> r.item.value]]
                 /\ cm' = Sent(StreamCatch(r.m, i, r.item.value))
    /\ UNCHANGED <<scopeVars, resolveVars, callVars, retryVars, comp, ctx, hist>>

\* JsxWrapper resumes with the component's resolved result: it calls the child
\* function with it, or returns it to the caller of execute
Deliver ==
  /\ sc.delivered.to = "none"
  /\ sc.inv[Outer].outcome.kind # "pending"
  /\ LET out == sc.inv[Outer].outcome
         arg == IF sc.props.children /\ out.kind # "rejected"
                  THEN ResolveChildrenOutput(out) ELSE out
     IN sc' = [sc EXCEPT !.delivered =
                 [to |-> IF sc.props.children /\ out.kind # "rejected"
                           THEN "children" ELSE "caller",
                  kind |-> arg.kind, value |-> arg.value, pos |-> sc.pos,
                  ended |-> cm.nodes[Outer].endTime # NoTime]]
  /\ UNCHANGED <<scopeVars, resolveVars, callVars, retryVars, wfVars>>

\* whoever holds the wrapped iterator asks it for its next token
ConsumerNext ==
  /\ sc.delivered.kind = "stream"
  /\ sc.consumer.state \in {"idle", "iterating"}
  /\ LET r == IteratorNext(sc, cm, Outer)
     IN /\ cm' = Sent(r.m)
        /\ sc' = CASE r.item.kind = "token" ->
                        [r.s EXCEPT !.consumer.state = "iterating",
                                    !.consumer.received = Append(@, r.item.value)]
                   [] r.item.kind = "done" ->
                        [r.s EXCEPT !.consumer.state = "done"]
                   [] r.item.kind = "throw" ->
                        [r.s EXCEPT !.consumer.state = "failed",
                                    !.consumer.error = r.item.value]
  /\ UNCHANGED <<scopeVars, resolveVars, callVars, retryVars, comp, ctx, hist>>

Sources ==
  {[tokens |-> tokens, end |-> end] :
     tokens \in UNION {[1..n -> Tokens] : n \in 0..MaxTokens}, end \in Ends}

InitStream ==
  /\ cm = NewManager(FALSE)
  /\ comp = [i \in NodeIds |-> NotInvoked]
  /\ \E asyncHooks \in BOOLEAN : ctx = NewContextManager(asyncHooks)
  /\ hist = NoHistory
  /\ heap = NewHeap
  /\ mgr = NewModule(TRUE)
  /\ scope = [s \in ScopeIds |-> NotEntered]
  /\ obs = NoObs
  /\ task = <<>>
  /\ trace = NoTrace
  /\ call = NoCall
  /\ retry = NoRetry
  /\ \E stream \in StreamProps, stacked \in BOOLEAN, children \in BOOLEAN,
        source \in Sources :
       sc = NewStream([stream |-> stream, stacked |-> stacked,
                       children |-> children], source)

NextStream ==
  \/ StreamInvoke
  \/ StreamAddNodeResumes
  \/ StreamRunStarts
  \/ StreamResolved
  \/ StreamDrain
  \/ Deliver
  \/ ConsumerNext

SpecStream == InitStream /\ [][NextStream]_vars

(* ------------------- the manager's methods, call by call --------------- *)
\* the metadata objects handed to addMetadata
MetadataPartials == [MetaKeys -> MetaVals \cup {Undefined}]

\* addNode(partial, parentId?) with a fresh id, up to its return
AddNodeCall ==
  /\ call.n < MaxOps
  /\ \E id \in NodeIds \ DOMAIN cm.nodes, parentId \in NodeIds \cup {NoId} :
       /\ parentId # id
       /\ LET m == AddNode(cm, id, parentId)
          IN /\ cm' = Sent(m)
             /\ call' = LastCall(call.n + 1, "addNode", id, FALSE, NoMetadata, m)
  /\ UNCHANGED <<scopeVars, resolveVars, streamVars, retryVars, comp, ctx, hist>>

\* completeNode(id, output)
CompleteNodeCall ==
  /\ call.n < MaxOps
  /\ \E id \in NodeIds, output \in Values \cup {Undefined} :
       LET m == CompleteNode(cm, id, output)
       IN /\ cm' = Sent(m)
          /\ call' = LastCall(call.n + 1, "completeNode", id,
                              id \in DOMAIN cm.nodes, NoMetadata, m)
  /\ UNCHANGED <<scopeVars, resolveVars, streamVars, retryVars, comp, ctx, hist>>

\* addMetadata(id, metadata)
AddMetadataCall ==
  /\ call.n < MaxOps
  /\ \E id \in NodeIds, metadata \in MetadataPartials :
       LET m == AddMetadata(cm, id, metadata)
       IN /\ cm' = Sent(m)
          /\ call' = LastCall(call.n + 1, "addMetadata", id,
                              id \in DOMAIN cm.nodes, metadata, m)
  /\ UNCHANGED <<scopeVars, resolveVars, streamVars, retryVars, comp, ctx, hist>>

\* a fetch comes back: writeCheckpoint settles and its .finally callback runs
FetchSettles ==
  /\ cm.fetches > 0
  /\ \E outcome \in Outcomes :
       LET m == Settle(cm, outcome)
       IN /\ cm' = Sent(m)
          /\ call' = LastCall(call.n, "settle", NoId, FALSE, NoMetadata, m)
  /\ UNCHANGED <<scopeVars, resolveVars, streamVars, retryVars, comp, ctx, hist>>

InitCalls ==
  /\ \E enabled \in BOOLEAN : cm = NewManager(enabled)
  /\ comp = [i \in NodeIds |-> NotInvoked]
  /\ ctx = NewContextManager(TRUE)
  /\ hist = NoHistory
  /\ ScopesIdle

NextCalls ==
  \/ AddNodeCall
  \/ CompleteNodeCall
  \/ AddMetadataCall
  \/ FetchSettles

SpecCalls == InitCalls /\ [][NextCalls]_vars

(* ----------------- RetryTransform and StructuredOutput ----------------- *)
\* the component function runs up to the await of its first attempt
RetryBegins ==
  /\ retry.pc = "called"
  /\ retry' = Iterate(retry)
  /\ UNCHANGED <<scopeVars, resolveVars, streamVars, callVars, wfVars>>

\* the attempt fulfilled with a validated result
AttemptSucceeds ==
  /\ retry.pc = "attempting"
  /\ \E value \in Values :
       retry' = [retry EXCEPT !.pc = "done",
                              !.outcome = [kind |-> "fulfilled", value |-> value]]
  /\ UNCHANGED <<scopeVars, resolveVars, streamVars, callVars, wfVars>>

\* the attempt threw (the completion, the parsing or the validation): the catch
\* block, and the next turn of the loop up to its await
AttemptFails ==
  /\ retry.pc = "attempting"
  /\ \E e \in Errors \cup NonErrors :
       IF retry.component = "RetryTransform"
         THEN retry' = RetryTransformCatch(retry, e)
         ELSE \E answer \in BOOLEAN : retry' = StructuredOutputCatch(retry, e, answer)
  /\ UNCHANGED <<scopeVars, resolveVars, streamVars, callVars, wfVars>>

\* the backoff timer fires: the next turn of the loop
BackoffEnds ==
  /\ retry.pc = "backoff"
  /\ retry' = Iterate(retry)
  /\ UNCHANGED <<scopeVars, resolveVars, streamVars, callVars, wfVars>>

InitRetry ==
  /\ cm = NewManager(FALSE)
  /\ comp = [i \in NodeIds |-> NotInvoked]
  /\ ctx = NewContextManager(TRUE)
  /\ hist = NoHistory
  /\ heap = NewHeap
  /\ mgr = NewModule(TRUE)
  /\ scope = [s \in ScopeIds |-> NotEntered]
  /\ obs = NoObs
  /\ task = <<>>
  /\ trace = NoTrace
  /\ sc = NoStream
  /\ call = NoCall
  /\ \E component \in {"RetryTransform", "StructuredOutput"},
        maxAttempts \in {NoAttempt} \cup (1..MaxAttempts),
        hooks \in BOOLEAN, backoff \in BOOLEAN :
       /\ component = "RetryTransform" => ~hooks /\ ~backoff
       /\ retry = NewRetry(component, maxAttempts, hooks, backoff)

NextRetry ==
  \/ RetryBegins
  \/ AttemptSucceeds
  \/ AttemptFails
  \/ BackoffEnds

SpecRetry == InitRetry /\ [][NextRetry]_vars

(* ------------------------------ properties ---------------------------- *)
Range(s) == {s[i] : i \in DOMAIN s}
\* the body a publish started now would carry
CurrentBody == <<Stringify(cm.nodes, cm.root)>>
Idle == ~cm.activeCheckpoint /\ ~cm.pendingUpdate /\ cm.fetches = 0
IsCall == hist'.ops = hist.ops + 1
IsSettle == hist'.settled = hist.settled + 1

\* C1: at most one publish is in flight at any time; a mutating call made while
\* one is in flight calls fetch no second time, it only sets pendingUpdate.
C1_OnePublishInFlight ==
  [][/\ cm'.fetches <= 1
     /\ (IsCall /\ cm.activeCheckpoint) =>
          /\ hist'.fetchCalls = hist.fetchCalls
          /\ cm'.fetches = cm.fetches
          /\ (hist'.burst > hist.burst => cm'.pendingUpdate)]_vars

C1_Witness ==
  /\ cm.checkpointsEnabled /\ cm.fetches = 1
  /\ hist.burst >= 2 /\ cm.pendingUpdate /\ hist.fetchCalls = 1

\* C2: when a publish finishes after N >= 1 mutating calls were made during it,
\* exactly one follow-up publish starts, carrying the tree as it then stands;
\* when it finishes after none, no publish starts and the publisher is idle.
C2_OneFollowUp ==
  [][IsSettle =>
       IF hist.burst >= 1
         THEN /\ hist'.fetchCalls = hist.fetchCalls + 1
              /\ cm'.fetches = 1
              /\ hist'.lastBody = CurrentBody
              /\ cm'.activeCheckpoint /\ ~cm'.pendingUpdate
         ELSE /\ hist'.fetchCalls = hist.fetchCalls
              /\ cm'.fetches = 0
              /\ ~cm'.activeCheckpoint /\ ~cm'.pendingUpdate]_vars

C2_Witness ==
  /\ hist.lastBurst >= 2 /\ hist.settled = 1
  /\ hist.fetchCalls = 2 /\ cm.fetches = 1 /\ hist.lastBody = CurrentBody

\* C3: with every publish round trip finishing, the publisher ends up idle for
\* good, and the last publish started carried the tree as the last mutation left it.
C3_LastStatePublished ==
  <>[](Idle /\ (cm.checkpointsEnabled /\ cm.root # NoId => hist.lastBody = CurrentBody))

C3_Witness ==
  /\ cm.checkpointsEnabled /\ Idle /\ hist.ops = MaxOps
  /\ hist.settled >= 2 /\ hist.fetchCalls >= 2 /\ hist.lastBody = CurrentBody

\* the parent links the callers asked for
AllAdded == \A id \in DOMAIN hist.requested :
  hist.requested[id] # NoId => hist.requested[id] \in DOMAIN hist.requested
RECURSIVE ReachesRoot(_, _)
ReachesRoot(id, k) ==
  IF hist.requested[id] = NoId THEN TRUE
  ELSE IF k = 0 THEN FALSE ELSE ReachesRoot(hist.requested[id], k - 1)
LinksFormTree ==
  /\ AllAdded
  /\ Cardinality({id \in DOMAIN hist.requested : hist.requested[id] = NoId}) = 1
  /\ \A id \in DOMAIN hist.requested : ReachesRoot(id, MaxNodes + 1)

\* C4: whatever order the addNode calls of a tree arrive in, once all nodes are
\* added every node given a parentId is among the children of that parent.
C4_AnyOrderReconciles ==
  LinksFormTree =>
    \A id \in DOMAIN hist.requested :
      hist.requested[id] # NoId =>
        /\ id \in Range(cm.nodes[hist.requested[id]].children)
        /\ cm.nodes[id].parentId = hist.requested[id]

C6_PublishFailureContained ==
  /\ ~cm.unhandledRejection
  /\ cm.activeCheckpoint <=> cm.fetches = 1
  /\ (hist.failed /\ Idle /\ cm.root # NoId) => hist.lastBody = CurrentBody

C6_Witness ==
  /\ hist.failed /\ hist.fetchCalls >= 2 /\ Idle /\ hist.lastBody = CurrentBody
  /\ hist.ops >= 2

Registered(i) == comp[i].pc \in {"scope", "dispatch", "body", "done"}
Count(seq, x) == Cardinality({k \in DOMAIN seq : seq[k] = x})

\* C7: an invocation whose user function (or the resolution of its result) threw
\* Error e rejects with e, and its node is completed with output undefined and
\* metadata.error = e.message.
C7_FailureSurfaces ==
  \A i \in NodeIds :
    comp[i].raised \in Errors =>
      /\ comp[i].outcome = [kind |-> "rejected", value |-> comp[i].raised]
      /\ cm.nodes[i].endTime # NoTime
      /\ cm.nodes[i].output = Undefined
      /\ cm.nodes[i].metadata["error"] = Message(comp[i].raised)

C7_Witness ==
  \E i \in NodeIds, c \in NodeIds :
    /\ comp[c].invoker = i /\ comp[c].raised \in Errors
    /\ comp[i].raised = comp[c].raised /\ comp[i].outcome.kind = "rejected"
    /\ cm.nodes[i].metadata["error"] = Message(comp[c].raised)

\* C8: within one invocation, addNode has registered the node before the user
\* function starts; the node is not completed while the user function or the
\* resolution of its result is still running; and once the invocation has
\* returned a value the node is completed with that value as output.
C8_StartRunComplete ==
  \A i \in NodeIds :
    /\ comp[i].pc \in {"dispatch", "body", "done"} => i \in DOMAIN cm.nodes
    /\ comp[i].pc \in {"scope", "dispatch", "body"} =>
         /\ cm.nodes[i].endTime = NoTime /\ cm.nodes[i].output = Undefined
         /\ comp[i].outcome.kind = "pending"
    /\ comp[i].outcome.kind = "fulfilled" =>
         /\ cm.nodes[i].endTime # NoTime
         /\ cm.nodes[i].output = comp[i].outcome.value

C8_Witness ==
  \E i \in NodeIds, c \in NodeIds :
    /\ comp[c].invoker = i
    /\ comp[c].outcome.kind = "fulfilled" /\ comp[i].outcome.kind = "fulfilled"
    /\ cm.nodes[i].output \in Values

\* C9: a component invoked from the body of another invocation is registered
\* with that invocation's node as parentId and is among its children; one invoked
\* outside every component is registered without a parent.
C9_ParentLinkage ==
  \A i \in NodeIds :
    Registered(i) =>
      IF comp[i].invoker = NoId
        THEN cm.nodes[i].parentId = NoId
        ELSE /\ cm.nodes[i].parentId = comp[i].invoker
             /\ i \in Range(cm.nodes[comp[i].invoker].children)

\* C10: when an invocation has started several invocations, each of them, once
\* registered, is attached exactly once under its node, and the tree holds one
\* node per invocation.
C10_FanOutAttachedOnce ==
  \A i \in NodeIds :
    Cardinality(Children(i)) >= 2 =>
      /\ \A c \in Children(i) :
           Registered(c) => Count(cm.nodes[i].children, c) = 1
      /\ Len(cm.nodes[i].children) = Cardinality({c \in Children(i) : Registered(c)})

(* ----------------------- properties: context scopes ------------------- *)
Contexts == {heap.contexts[i] : i \in DOMAIN heap.contexts}
HasSync(s) == scope[s].pc \in {"dispatch", "body", "done"}
HasAsync(s) == scope[s].pc = "done"

\* the binding of `key` made by the nearest scope enclosing code of scope s:
\* <<value>>, or <<>> when no enclosing scope binds it
RECURSIVE NearestBinding(_, _)
NearestBinding(s, key) ==
  IF s = NoScope THEN <<>>
  ELSE IF key \in DOMAIN scope[s].binding THEN <<scope[s].binding[key]>>
  ELSE NearestBinding(scope[s].caller, key)

\* what a read of `context` in scope s is to return: the nearest enclosing value
\* (the default when that value is undefined or nothing encloses)
Visible(s, context) ==
  LET b == NearestBinding(s, context.symbol)
  IN IF b = <<>> THEN context.defaultValue
     ELSE IF b[1] = Undefined THEN context.defaultValue ELSE b[1]

SyncReadsRight(s) ==
  HasSync(s) => \A i \in DOMAIN heap.contexts :
                  scope[s].sync[i] = Visible(s, heap.contexts[i])
AsyncReadsRight(s) ==
  HasAsync(s) => \A i \in DOMAIN heap.contexts :
                   scope[s].async[i] = Visible(s, heap.contexts[i])
\* the values the scopes not enclosing s bind
ForeignValues(s) == {ScopeValues[t] : t \in ScopeIds \ Enclosing(s)}
Siblings(s, t) ==
  /\ s # t /\ scope[s].pc # "idle" /\ scope[t].pc # "idle"
  /\ scope[s].caller = scope[t].caller
BindsOwn(s, i) ==
  /\ heap.contexts[i].symbol \in DOMAIN scope[s].binding
  /\ scope[s].binding[heap.contexts[i].symbol] = ScopeValues[s]

\* C11: with AsyncLocalStorage, every read made inside a scope, before and after
\* its awaits, returns the value bound by the scope's own lineage, never a value
\* bound by a sibling scope, whether the sibling runs concurrently or ran before.
C11_SiblingScopesIsolated ==
  mgr.contextStorage =>
    \A s \in ScopeIds :
      /\ SyncReadsRight(s) /\ AsyncReadsRight(s)
      /\ HasSync(s) => \A i \in DOMAIN heap.contexts :
                         scope[s].sync[i] \notin ForeignValues(s)
      /\ HasAsync(s) => \A i \in DOMAIN heap.contexts :
                          scope[s].async[i] \notin ForeignValues(s)

\* two siblings that ran concurrently, each bound its own value for the same
\* context and read it back after its awaits
C11_Witness ==
  /\ mgr.contextStorage /\ obs.overlap
  /\ \E s, t \in ScopeIds, i \in DOMAIN heap.contexts :
       /\ Siblings(s, t) /\ BindsOwn(s, i) /\ BindsOwn(t, i)
       /\ HasAsync(s) /\ HasAsync(t)
       /\ scope[s].async[i] = ScopeValues[s] /\ scope[t].async[i] = ScopeValues[t]

\* where the contract promises correct propagation: with AsyncLocalStorage, or
\* in a run in which no two sibling scopes were in flight together
Promised == mgr.contextStorage \/ ~obs.overlap

\* C12: a read inside the inner of two nested scopes returns the inner value, a
\* read inside the outer one outside the inner returns the outer value; after a
\* scope has finished (fulfilled or rejected) its caller's continuation sees the
\* frame that was current when the scope was entered.
C12_NestingAndRestore ==
  Promised =>
    \A s \in ScopeIds :
      /\ SyncReadsRight(s) /\ AsyncReadsRight(s)
      /\ (scope[s].pc = "done" /\ CanRun(scope[s].caller))
           => CurrentContextOf(scope[s].caller) = scope[s].entered

\* C13: what a scope binds is what its function reads after it has suspended on an
\* await.
C13_BindingSurvivesAwait ==
  Promised =>
    \A s \in ScopeIds, i \in DOMAIN heap.contexts :
      (HasAsync(s) /\ BindsOwn(s, i)) => scope[s].async[i] = ScopeValues[s]

\* C14: without AsyncLocalStorage, in a run that never has two sibling scopes in
\* flight, every read (before an await, after it, in a nested scope) returns the
\* nearest enclosing value, and between tasks globalContext is the frame that was
\* current before the scopes were entered.
C14_FallbackSequential ==
  (~mgr.contextStorage /\ ~obs.overlap) =>
    /\ \A s \in ScopeIds : SyncReadsRight(s) /\ AsyncReadsRight(s)
    /\ mgr.running = NoScope => mgr.globalContext = RootRef
    /\ \A s \in ScopeIds :
         (scope[s].pc = "done" /\ mgr.running = NoScope)
           => mgr.globalContext = scope[s].entered

\* the scope whose withContext call created frame `ref` (not the root frame)
FrameOwner(ref) ==
  CHOOSE t \in ScopeIds : scope[t].frame = ref /\ scope[t].prev # ref

\* the nearest binding of `key` in the lineage of frame `ref`, from what the
\* withContext calls were given: <<value>>, or <<>> when the lineage has none
RECURSIVE LineageBinding(_, _)
LineageBinding(ref, key) ==
  IF ref = RootRef THEN <<>>
  ELSE LET t == FrameOwner(ref)
       IN IF key \in DOMAIN scope[t].binding THEN <<scope[t].binding[key]>>
          ELSE LineageBinding(scope[t].prev, key)

\* C15 (as stated): useContext returns the value of the nearest binding in the
\* current frame's lineage, whatever that value is, and the default when the
\* lineage has no binding.
C15_NearestOrDefault ==
  \A ref \in DOMAIN heap.frames, context \in Contexts :
    UseContext(heap, ref, context) =
      LET b == LineageBinding(ref, context.symbol)
      IN IF b = <<>> THEN context.defaultValue ELSE b[1]

\* C15 (amended): useContext returns the value of the nearest binding in the
\* current frame's lineage, and the default when the lineage has no binding or
\* when the nearest binding's value is undefined.
C15_NearestDefinedOrDefault ==
  \A ref \in DOMAIN heap.frames, context \in Contexts :
    UseContext(heap, ref, context) =
      LET b == LineageBinding(ref, context.symbol)
      IN IF b = <<>> THEN context.defaultValue
         ELSE IF b[1] = Undefined THEN context.defaultValue ELSE b[1]

\* a frame that inherits one binding from its parent, binds another context
\* itself, and a frame in which a context is unbound
C15_Witness ==
  /\ \E t \in ScopeIds, c1, c2 \in Contexts :
       /\ HasSync(t) /\ scope[t].prev # RootRef /\ scope[t].frame # scope[t].prev
       /\ c1.symbol \notin DOMAIN scope[t].binding
       /\ c2.symbol \in DOMAIN scope[t].binding
       /\ UseContext(heap, scope[t].frame, c1) = ScopeValues[scope[t].caller]
       /\ UseContext(heap, scope[t].frame, c2) = ScopeValues[t]
  /\ \E context \in Contexts : UseContext(heap, RootRef, context) = DefaultValue

\* C16: ExecutionContext.withContext changes no existing frame, and the frame it
\* yields holds the new bindings and, for every other symbol, what the receiver
\* holds.
C16_FramesImmutable ==
  [][/\ \A f \in DOMAIN heap.frames :
          f \in DOMAIN heap'.frames /\ heap'.frames[f] = heap.frames[f]
     /\ \A s \in ScopeIds :
          (scope[s].pc = "configure" /\ scope'[s].pc = "dispatch") =>
            \A context \in Contexts :
              Get(heap'.frames, scope'[s].frame, context.symbol) =
                IF context.symbol \in DOMAIN scope[s].binding
                  THEN scope[s].binding[context.symbol]
                  ELSE Get(heap.frames, scope'[s].prev, context.symbol)]_vars

\* withContext was called on a frame that binds something, with a binding for the
\* same context, and the receiver still holds its own value
C16_Witness ==
  \E s, t \in ScopeIds, i \in DOMAIN heap.contexts :
    /\ HasSync(s) /\ HasSync(t) /\ scope[t].prev = scope[s].frame
    /\ BindsOwn(s, i) /\ BindsOwn(t, i)
    /\ Get(heap.frames, scope[s].frame, heap.contexts[i].symbol) = ScopeValues[s]
    /\ Get(heap.frames, scope[t].frame, heap.contexts[i].symbol) = ScopeValues[t]

\* C17: the contexts created have pairwise distinct symbols, and a frame derived
\* by binding one context reads, for every other context, what the receiver reads.
C17_ContextsIndependent ==
  /\ \A i, j \in DOMAIN heap.contexts :
       i # j => heap.contexts[i].symbol # heap.contexts[j].symbol
  /\ \A s \in ScopeIds, context \in Contexts :
       (HasSync(s) /\ context.symbol \notin DOMAIN scope[s].binding) =>
         UseContext(heap, scope[s].frame, context) =
           UseContext(heap, scope[s].prev, context)

\* two contexts bound by two nested scopes: the inner function reads both values
C17_Witness ==
  \E s, t \in ScopeIds, i, j \in DOMAIN heap.contexts :
    /\ i # j /\ scope[t].pc = "done" /\ scope[t].caller = s
    /\ BindsOwn(s, i) /\ BindsOwn(t, j)
    /\ scope[t].async[i] = ScopeValues[s] /\ scope[t].async[j] = ScopeValues[t]

(* ------------------ properties: resolveDeep and execute --------------- *)
\* the resolution of a value under an ambient streaming flag, as section 4.1
\* defines it
RECURSIVE Resolution(_, _)
Resolution(value, streaming) ==
  CASE value.kind = "promise" -> Resolution(value.of, streaming)
    [] value.kind = "streamable" -> IF streaming THEN value ELSE value.value
    [] value.kind = "array" ->
         Array([i \in DOMAIN value.items |-> Resolution(value.items[i], streaming)])
    [] value.kind = "element" ->
         Resolution(IF IsStreamComponent(value.type)
                      THEN Resolution(ComponentBody(value.type), value.stream)
                      ELSE ComponentBody(value.type),
                    streaming)
    [] OTHER -> value

\* nothing deferred or executable is left in the value
RECURSIVE FullyResolved(_, _)
FullyResolved(value, streaming) ==
  CASE value.kind \in {"promise", "element"} -> FALSE
    [] value.kind = "streamable" -> streaming
    [] value.kind = "array" ->
         \A i \in DOMAIN value.items : FullyResolved(value.items[i], streaming)
    [] OTHER -> TRUE

\* C18: resolveDeep of an array starts the resolution of every element before it
\* awaits any, and returns an array of the same length whose i-th element is the
\* resolution of the i-th input element, in whatever order the elements settled.
C18_ArrayOrderPreserved ==
  \A t \in DOMAIN task :
    (task[t].fn = "resolveDeep" /\ task[t].value.kind = "array") =>
      /\ task[t].pc \in {"awaitAll", "done"}
      /\ Len(task[t].kids) = Len(task[t].value.items)
      /\ task[t].pc = "done" =>
           /\ task[t].result.kind = "array"
           /\ Len(task[t].result.items) = Len(task[t].value.items)
           /\ \A i \in DOMAIN task[t].value.items :
                task[t].result.items[i] =
                  Resolution(task[t].value.items[i], task[t].streaming)

\* three elements that settled last to first, resolved to different values
C18_Witness ==
  \E t \in DOMAIN task :
    /\ task[t].pc = "done" /\ task[t].value.kind = "array"
    /\ task[t].order = <<3, 2, 1>>
    /\ task[t].result.items[1] # task[t].result.items[3]
    /\ task[t].result.items[1] = Resolution(task[t].value.items[1], task[t].streaming)

\* C19: resolveDeep of a streamable returns the streamable itself when the
\* ambient context is streaming, and its accumulated value when it is not.
C19_StreamablePassThrough ==
  \A t \in DOMAIN task :
    (task[t].fn = "resolveDeep" /\ task[t].value.kind = "streamable") =>
      /\ task[t].pc \in {"awaitFinal", "done"}
      /\ task[t].streaming => (task[t].pc = "done" /\ task[t].result = task[t].value)
      /\ (~task[t].streaming /\ task[t].pc = "done")
           => task[t].result = task[t].value.value

\* a stream component invoked with stream: true outside a streaming scope: inside
\* its scope the streamable was passed through, outside it was resolved
C19_Witness ==
  \E t, u \in DOMAIN task :
    /\ task[t].pc = "done" /\ task[t].value.kind = "streamable"
    /\ task[t].streaming /\ task[t].result = task[t].value
    /\ task[u].pc = "done" /\ task[u].value.kind = "streamable"
    /\ ~task[u].streaming /\ task[u].result = Prim("tokens")

\* what execute yields, and how many child functions it calls on the way
RECURSIVE ExecuteResult(_, _)
ExecuteResult(element, streaming) ==
  IF element.kind = "element" /\ element.children # None
    THEN ExecuteResult(CallChildren(element.children,
                                    Resolution(element, streaming)), streaming)
    ELSE Resolution(element, streaming)
RECURSIVE ChildrenCalls(_, _)
ChildrenCalls(element, streaming) ==
  IF element.kind = "element" /\ element.children # None
    THEN 1 + ChildrenCalls(CallChildren(element.children,
                                        Resolution(element, streaming)), streaming)
    ELSE 0

\* C20: execute of an element with a child function calls the child function
\* with the fully resolved output of the component, only once that resolution has
\* settled, and yields what executing the child function's result yields; without
\* a child function it yields the resolution of the element.
C20_ContinuationAfterResolution ==
  (trace.entry.kind = "execute" /\ trace.entry.value.kind = "element") =>
    /\ \A n \in DOMAIN trace.continued :
         /\ trace.continued[n].output =
              Resolution(trace.continued[n].of, trace.entry.streaming)
         /\ FullyResolved(trace.continued[n].output, trace.entry.streaming)
    /\ \A t \in DOMAIN task :
         task[t].pc = "awaitResolved" => Len(trace.continued) < 
           ChildrenCalls(trace.entry.value, trace.entry.streaming)
    /\ Settled(1) =>
         /\ task[1].pc = "done"
         /\ task[1].result = ExecuteResult(trace.entry.value, trace.entry.streaming)
         /\ Len(trace.continued) =
              ChildrenCalls(trace.entry.value, trace.entry.streaming)

\* a chain of two child functions: each was called with a resolved output
C20_Witness ==
  /\ trace.entry.kind = "execute" /\ Len(trace.continued) = 2
  /\ trace.continued[1].of.kind = "element"
  /\ trace.continued[1].output = Prim("x")
  /\ Settled(1) /\ task[1].result = Array(<<Prim("x"), Prim("x")>>)

\* C21: execute(null) and execute(undefined) are rejected with an error by the
\* call itself: the promise is never pending, never fulfilled, and no component
\* is invoked and no further call made.
C21_ExecuteNullRejects ==
  (trace.entry.kind = "execute" /\ trace.entry.value.kind \in {"null", "undefined"}) =>
    /\ Len(task) = 1
    /\ task[1].pc = "rejected" /\ task[1].result = Error
    /\ trace.invoked = <<>> /\ trace.continued = <<>>

C21_Witness ==
  /\ trace.entry.kind = "execute" /\ trace.entry.value = Undef
  /\ task[1].pc = "rejected"

(* stream components *)
StreamNode(i) == cm.nodes[i]
Completed(i) == i \in DOMAIN cm.nodes /\ cm.nodes[i].endTime # NoTime
HasMetadata(i, key, value) ==
  /\ key \in DOMAIN cm.nodes[i].metadata
  /\ cm.nodes[i].metadata[key] = value

\* C22: a stream component invoked with stream false or absent drains the whole
\* token sequence inside the wrapper, returns the concatenation of all tokens in
\* order as one string and completes its node with that same string.
C22_NonStreamingDrains ==
  sc.props.stream \in {"false", "absent"} =>
    /\ sc.inv[Outer].outcome.kind \in {"pending", "string", "rejected"}
    /\ sc.inv[Outer].outcome.kind = "rejected" => sc.source.end # "return"
    /\ sc.inv[Outer].outcome.kind = "string" =>
         /\ sc.source.end = "return"
         /\ sc.pos = Len(sc.source.tokens)
         /\ sc.inv[Outer].outcome.value = Concat(sc.source.tokens)
         /\ Completed(Outer)
         /\ StreamNode(Outer).output = Concat(sc.source.tokens)

C22_Witness ==
  /\ sc.props.stream = "absent" /\ ~sc.props.stacked
  /\ sc.source.tokens = <<"a", "b">>
  /\ sc.delivered.to = "caller" /\ sc.delivered.kind = "string"
  /\ sc.delivered.value = "ab"

\* C23: with stream=true the caller is yielded exactly the tokens of the
\* underlying sequence in order; at its natural end the node is completed with
\* their concatenation as output and with metadata streamCompleted = true.
C23_StreamCompletes ==
  (WantsStream(sc.props.stream) /\ sc.consumer.state = "done") =>
    /\ sc.consumer.received = sc.source.tokens
    /\ Completed(Outer)
    /\ StreamNode(Outer).output = Concat(sc.source.tokens)
    /\ HasMetadata(Outer, "streamCompleted", "true")

\* C24: when the underlying sequence of a stream=true invocation fails after some
\* tokens, the caller receives those tokens and then that error; the node is
\* completed with their concatenation, metadata.error = the error's message and
\* streamCompleted = false.
C24_StreamFails ==
  (WantsStream(sc.props.stream) /\ sc.consumer.state = "failed") =>
    /\ sc.consumer.received = sc.source.tokens
    /\ sc.consumer.error = sc.source.end
    /\ Completed(Outer)
    /\ StreamNode(Outer).output = Concat(sc.source.tokens)
    /\ HasMetadata(Outer, "error", Message(sc.source.end))
    /\ HasMetadata(Outer, "streamCompleted", "false")

\* C25: when an outer stream component returns an inner one invoked with
\* stream=true, the outer request decides the shape: with stream=true the result
\* is a token sequence whose concatenation is the inner's full output, otherwise
\* it is the fully accumulated string.
C25_OutermostDecides ==
  (sc.props.stacked /\ sc.delivered.to # "none") =>
    IF sc.props.stream = "true"
      THEN /\ sc.delivered.kind = "stream"
           /\ sc.consumer.state = "done" =>
                /\ Completed(Inner)
                /\ Concat(sc.consumer.received) = StreamNode(Inner).output
                /\ Concat(sc.consumer.received) = Concat(sc.source.tokens)
      ELSE /\ sc.delivered.kind \in {"string", "rejected"}
           /\ sc.delivered.kind = "rejected" => sc.source.end # "return"
           /\ sc.delivered.kind = "string" =>
                /\ Completed(Inner)
                /\ sc.delivered.value = StreamNode(Inner).output
                /\ sc.delivered.value = Concat(sc.source.tokens)

C25_Witness ==
  /\ sc.props.stacked /\ sc.props.stream = "true"
  /\ sc.consumer.state = "done"
  /\ sc.consumer.received = <<"a", "b">>
  /\ StreamNode(Inner).output = "ab"

\* C26: the child function of a stream component receives the live token sequence
\* (nothing pulled, node open) when the component was invoked with stream=true,
\* and the fully accumulated string when it was invoked without streaming.
C26_ChildFunctionArgument ==
  /\ (sc.props.children /\ sc.delivered.to # "none"
        /\ sc.inv[Outer].outcome.kind # "rejected") => sc.delivered.to = "children"
  /\ sc.delivered.to = "children" =>
       IF sc.props.stream = "true"
         THEN /\ sc.delivered.kind = "stream"
              /\ sc.delivered.pos = 0
              /\ ~sc.delivered.ended
         ELSE /\ sc.delivered.kind = "string"
              /\ sc.delivered.value = Concat(sc.source.tokens)

C26_Witness ==
  /\ sc.props.children /\ sc.props.stream = "true"
  /\ sc.delivered.to = "children"
  /\ sc.consumer.received = <<"a", "b">>

\* C27: execute of a stream component with stream=true returns the token sequence
\* without draining it: at its return no token has been pulled from the source
\* and the invocation's node is not completed.
C27_ReturnsWithoutDraining ==
  (sc.props.stream = "true" /\ sc.delivered.to = "caller") =>
    /\ sc.delivered.kind = "stream"
    /\ sc.delivered.pos = 0
    /\ ~sc.delivered.ended

C27_Witness ==
  /\ sc.props.stream = "true" /\ sc.delivered.to = "caller"
  /\ Len(sc.source.tokens) = MaxTokens
  /\ sc.consumer.state = "idle"
  /\ ~Completed(Outer)

(* the root, the life of a node *)
\* C28: the first node added with no parentId while no root exists becomes root,
\* and root never changes afterwards: a later parentless node does not replace
\* it, and a node added with a parentId never becomes root.
C28_RootSetOnce ==
  [][/\ cm.root # NoId => cm'.root = cm.root
     /\ \A id \in DOMAIN hist'.requested \ DOMAIN hist.requested :
          /\ (cm.root = NoId /\ hist'.requested[id] = NoId) => cm'.root = id
          /\ hist'.requested[id] # NoId => cm'.root = cm.root]_vars

C28_Witness ==
  /\ cm.root # NoId
  /\ hist.requested[cm.root] = NoId
  /\ \E id \in DOMAIN cm.nodes : id < cm.root /\ hist.requested[id] # NoId
  /\ \E id \in DOMAIN cm.nodes : id # cm.root /\ hist.requested[id] = NoId

\* C29: once a node has its endTime, its output and endTime are never changed by
\* a later operation; only its metadata may still be enriched.
C29_TerminalImmutable ==
  [][\A id \in DOMAIN cm.nodes :
       cm.nodes[id].endTime # NoTime =>
         /\ cm'.nodes[id].endTime = cm.nodes[id].endTime
         /\ cm'.nodes[id].output = cm.nodes[id].output]_vars

\* C30: every invocation whose node was created has its node completed once the
\* user function has returned or thrown, whatever was thrown.
C30_FinishedInvocationsCompleted ==
  \A i \in NodeIds :
    (comp[i].pc = "done" /\ i \in DOMAIN cm.nodes) => cm.nodes[i].endTime # NoTime

(* the manager's methods *)
IsMethodCall == call'.n = call.n + 1
Mutating ==
  \/ call.op = "addNode"
  \/ call.op \in {"completeNode", "addMetadata"} /\ call.known
\* the call started a publish that carries the tree as the call left it
Started ==
  /\ cm.root # NoId
  /\ call.published = <<Stringify(cm.nodes, cm.root)>>
  /\ cm.activeCheckpoint /\ cm.fetches = 1
\* a publish was in flight and the call set the follow-up flag
Queued ==
  /\ call.published = <<>>
  /\ cm.activeCheckpoint /\ cm.pendingUpdate /\ cm.fetches = 1

\* C31: completeNode on an id that was never registered changes no node and
\* leaves the tree and the publisher state as they were; it starts no publish.
C31_CompleteUnknownIsNoOp ==
  [][(IsMethodCall /\ call'.op = "completeNode" /\ ~call'.known) =>
       /\ cm' = cm
       /\ call'.published = <<>>]_vars

C31_Witness ==
  /\ call.op = "completeNode" /\ ~call.known
  /\ cm.checkpointsEnabled /\ cm.root # NoId /\ ~cm.activeCheckpoint

\* C32: addMetadata on a known node sets every key of the partial and leaves the
\* node's other metadata keys, output, endTime, children and parentId, and every
\* other node, unchanged; on an unknown id it changes nothing.
C32_AddMetadataMerges ==
  [][(IsMethodCall /\ call'.op = "addMetadata") =>
       IF call'.known
         THEN /\ DOMAIN cm'.nodes = DOMAIN cm.nodes
              /\ cm'.root = cm.root
              /\ \A n \in DOMAIN cm.nodes :
                   IF n = call'.id
                     THEN /\ \A k \in MetaKeys :
                               cm'.nodes[n].metadata[k] =
                                 IF call'.metadata[k] # Undefined
                                   THEN call'.metadata[k]
                                   ELSE cm.nodes[n].metadata[k]
                          /\ cm'.nodes[n].output = cm.nodes[n].output
                          /\ cm'.nodes[n].endTime = cm.nodes[n].endTime
                          /\ cm'.nodes[n].children = cm.nodes[n].children
                          /\ cm'.nodes[n].parentId = cm.nodes[n].parentId
                     ELSE cm'.nodes[n] = cm.nodes[n]
         ELSE cm' = cm /\ call'.published = <<>>]_vars

\* a second addMetadata with another key on a completed node that has a child
C32_Witness ==
  /\ call.op = "addMetadata" /\ call.known
  /\ call.metadata["error"] = Undefined /\ call.metadata["k"] = "m2"
  /\ cm.nodes[call.id].metadata["error"] = "m1"
  /\ cm.nodes[call.id].metadata["k"] = "m2"

\* C34 as stated: with checkpointing enabled, after every mutating call either a
\* publish carrying the current tree has been started or one is in flight with
\* the follow-up flag set.
C34_EveryMutationPublishes ==
  (cm.checkpointsEnabled /\ Mutating) => (Started \/ Queued)

\* C34: the same, once the tree has a root.
C34_MutationWithRootPublishes ==
  (cm.checkpointsEnabled /\ cm.root # NoId /\ Mutating) => (Started \/ Queued)

C34_Witness ==
  /\ cm.checkpointsEnabled /\ call.op = "completeNode" /\ call.known
  /\ Queued /\ call.n = MaxOps

\* C35: for every registered node n and every c in n.children, c.parentId = n.
C35_ChildrenCarryParent ==
  \A n \in DOMAIN cm.nodes :
    \A i \in DOMAIN cm.nodes[n].children :
      /\ cm.nodes[n].children[i] \in DOMAIN cm.nodes
      /\ cm.nodes[cm.nodes[n].children[i]].parentId = n

C35_Witness ==
  \E n \in DOMAIN cm.nodes :
    /\ Len(cm.nodes[n].children) = 2
    /\ call.op = "addNode" /\ cm.nodes[call.id].parentId = n

\* the places where c is listed as a child
Listings(m, c) ==
  {<<n, i>> \in (DOMAIN m.nodes) \X (1..MaxNodes) :
     i \in DOMAIN m.nodes[n].children /\ m.nodes[n].children[i] = c}

\* C36: each node is listed as a child by at most one node and at most once; an
\* attached child is never removed nor moved, and a registered node keeps its id.
C36_AttachedOnceForGood ==
  /\ [](\A c \in NodeIds : Cardinality(Listings(cm, c)) <= 1)
  /\ [][\A n \in DOMAIN cm.nodes :
          /\ n \in DOMAIN cm'.nodes
          /\ cm'.nodes[n].id = n /\ cm.nodes[n].id = n
          /\ Len(cm'.nodes[n].children) >= Len(cm.nodes[n].children)
          /\ \A i \in DOMAIN cm.nodes[n].children :
               cm'.nodes[n].children[i] = cm.nodes[n].children[i]
          /\ cm'.nodes[n].parentId = cm.nodes[n].parentId]_vars

C36_Witness ==
  \E n \in DOMAIN cm.nodes, c \in DOMAIN cm.nodes :
    /\ cm.nodes[n].children = <<c>>
    /\ cm.nodes[c].children # <<>>
    /\ call.op = "addNode" /\ call.n = MaxOps

\* C38: the follow-up flag is set only while a publish is in flight.
C38_PendingOnlyWhileActive ==
  cm.pendingUpdate => (cm.activeCheckpoint /\ cm.fetches = 1)

\* a follow-up was requested, started when the publish finished, and has finished
C38_Witness ==
  /\ call.op = "settle" /\ call.published = <<>> /\ call.queued
  /\ cm.checkpointsEnabled /\ cm.root # NoId
  /\ ~cm.activeCheckpoint /\ ~cm.pendingUpdate /\ cm.fetches = 0

\* C33: the workflow never waits for the checkpoint sink: unless a component
\* throws, every invoked component ends up fulfilled, whether or not the publish
\* round trips ever finish.
C33_WorkflowNeverWaits ==
  \/ <>(\E i \in NodeIds : comp[i].raised # Undefined)
  \/ <>[](\A i \in NodeIds : comp[i].pc = "idle" \/ comp[i].outcome.kind = "fulfilled")

\* the whole workflow has produced its results while a publish is in flight
C33_Witness ==
  /\ \A i \in NodeIds : comp[i].pc = "done" /\ comp[i].outcome.kind = "fulfilled"
  /\ cm.fetches > 0 /\ cm.activeCheckpoint /\ cm.pendingUpdate

\* the value at the end of a chain of promises and of components returning
\* component invocations, and the components invoked on the way
RECURSIVE Innermost(_)
Innermost(value) ==
  CASE value.kind = "promise" -> Innermost(value.of)
    [] value.kind = "element" -> Innermost(ComponentBody(value.type))
    [] OTHER -> value
RECURSIVE Chain(_)
Chain(value) ==
  CASE value.kind = "promise" -> Chain(value.of)
    [] value.kind = "element" -> <<value.type>> \o Chain(ComponentBody(value.type))
    [] OTHER -> <<>>
Flattens(value) ==
  /\ value.kind \in {"promise", "element"}
  /\ Innermost(value).kind = "prim"

\* C37: resolveDeep of an executable node invokes the component and resolves
\* what it returns, recursively: a component returning another component's
\* invocation, to any depth, resolves to the innermost component's value, each
\* component of the chain invoked once in order; a promise of a promise resolves
\* to the final value.
C37_ComponentsFlatten ==
  (trace.entry.kind = "resolveDeep" /\ Flattens(trace.entry.value)) =>
    /\ task[1].pc # "rejected"
    /\ \A i \in DOMAIN trace.invoked :
         i <= Len(Chain(trace.entry.value))
           /\ trace.invoked[i] = Chain(trace.entry.value)[i]
    /\ task[1].pc = "done" =>
         /\ task[1].result = Innermost(trace.entry.value)
         /\ trace.invoked = Chain(trace.entry.value)

C37_Witness ==
  /\ trace.entry.kind = "resolveDeep"
  /\ trace.entry.value = Promise(Element("Deep", FALSE, None))
  /\ task[1].pc = "done" /\ task[1].result = Prim("x")
  /\ trace.invoked = <<"Deep", "Outer", "Leaf">>

(* retry loops *)
Fulfilled == retry.outcome.kind = "fulfilled"
Rejected == retry.outcome.kind = "rejected"
\* attempt k carries no retry message when it is the first, and otherwise one
\* message naming the error of attempt k - 1
MessagesRight ==
  \A k \in DOMAIN retry.attempts :
    /\ retry.attempts[k].n = k
    /\ retry.attempts[k].retryMessage =
         IF k = 1 THEN <<>> ELSE <<ErrorText(retry.failures[k - 1])>>

\* C39: RetryTransform with maxAttempts >= 1 (default 3) makes at most
\* maxAttempts attempts, returns the result of the first successful one without
\* a further attempt, throws only after exactly maxAttempts failed attempts, and
\* every attempt after the first carries one system message naming the previous
\* attempt's error.
C39_RetryTransformBounded ==
  retry.component = "RetryTransform" =>
    /\ Len(retry.attempts) <= retry.maxAttempts
    /\ Len(retry.failures) <= Len(retry.attempts)
    /\ MessagesRight
    /\ retry.pc = "attempting" => Len(retry.failures) = Len(retry.attempts) - 1
    /\ retry.pc = "done" => Fulfilled \/ Rejected
    /\ Fulfilled =>
         /\ retry.outcome.value \in Values
         /\ Len(retry.failures) = Len(retry.attempts) - 1
    /\ Rejected =>
         /\ Len(retry.failures) = retry.maxAttempts
         /\ Len(retry.attempts) = retry.maxAttempts

\* maxAttempts left to its default: two failures, each named to the next attempt,
\* then the third attempt's result
C39_Witness ==
  /\ retry.component = "RetryTransform" /\ retry.maxAttempts = DefaultMaxAttempts
  /\ Fulfilled /\ retry.failures = <<"e1", "str">>
  /\ retry.attempts[3].retryMessage = <<"str">>

\* C40: StructuredOutput makes at most maxAttempts (default 3) attempts and
\* returns the first validated result; after each failed attempt it calls onRetry
\* once with that attempt's number and error; it throws without a further attempt
\* as soon as shouldRetry returns false or the attempt number equals maxAttempts.
C40_StructuredOutputBounded ==
  retry.component = "StructuredOutput" =>
    /\ Len(retry.attempts) <= retry.maxAttempts
    /\ Len(retry.failures) <= Len(retry.attempts)
    /\ retry.pc = "attempting" => Len(retry.failures) = Len(retry.attempts) - 1
    /\ retry.pc = "done" => Fulfilled \/ Rejected
    /\ Fulfilled =>
         /\ retry.outcome.value \in Values
         /\ Len(retry.failures) = Len(retry.attempts) - 1
    /\ retry.hooks =>
         /\ Len(retry.onRetry) = Len(retry.failures)
         /\ Len(retry.shouldRetry) = Len(retry.failures)
         /\ \A k \in DOMAIN retry.onRetry :
              retry.onRetry[k] = [attempt |-> k, error |-> ErrorText(retry.failures[k])]
         /\ \A k \in DOMAIN retry.shouldRetry :
              ~retry.shouldRetry[k] =>
                 /\ Rejected
                 /\ k = Len(retry.failures) /\ k = Len(retry.attempts)
    /\ Rejected <=>
         /\ retry.failures # <<>>
         /\ Len(retry.failures) = Len(retry.attempts)
         /\ \/ Len(retry.failures) = retry.maxAttempts
            \/ retry.hooks /\ ~retry.shouldRetry[Len(retry.failures)]

\* shouldRetry said yes once and then no, with an attempt left
C40_Witness ==
  /\ retry.component = "StructuredOutput" /\ retry.hooks
  /\ retry.maxAttempts = DefaultMaxAttempts
  /\ retry.shouldRetry = <<TRUE, FALSE>>
  /\ Len(retry.onRetry) = 2 /\ Len(retry.attempts) = 2
  /\ Rejected

====
